---- MODULE Spec2Model ----
(***************************************************************************)
(* A model of the oxygen WebAssembly loader and interpreter:               *)
(*   - ByteCode::parse_code, the recursive-descent instruction decoder     *)
(*     that flattens structured control into one instruction array and     *)
(*     resolves branch targets (section/bytecode.rs);                      *)
(*   - WasmModule::instance, start, call, run, jump, mem_read, mem_write   *)
(*     (decoder.rs).                                                       *)
(* Program counters, stack pointers and table/memory indices are 0-based   *)
(* as in the source; sequences are 1-based, so At(s, i) reads s[i + 1].    *)
(* An instruction of the input stream is an opcode byte together with its  *)
(* already LEB-decoded immediates.                                         *)
(***************************************************************************)
EXTENDS Integers, Sequences, FiniteSets, TLC

VARIABLES module, dstatus, ops, section, vm, overflow_checks, reader

vars == <<module, dstatus, ops, section, vm, overflow_checks, reader>>

(***************************************************************************)
(* Bounds of the model.                                                    *)
(***************************************************************************)
MaxLen == 5
MaxLabel == 1
MaxBodies == 2

(***************************************************************************)
(* Generic helpers.                                                        *)
(***************************************************************************)
At(s, i) == s[i + 1]

Max(a, b) == IF a > b THEN a ELSE b

Min(a, b) == IF a < b THEN a ELSE b

Last(s) == s[Len(s)]

Pop(s) == IF Len(s) = 0 THEN s ELSE SubSeq(s, 1, Len(s) - 1)

RECURSIVE SeqsUpTo(_, _)
SeqsUpTo(S, n) ==
    IF n = 0 THEN {<<>>}
    ELSE LET shorter == SeqsUpTo(S, n - 1)
         IN shorter \cup {Append(s, x) : s \in {t \in shorter : Len(t) = n - 1}, x \in S}

(***************************************************************************)
(* Opcode values of the flat instruction array.                            *)
(***************************************************************************)
Location(a, b, c) == <<a, b, c>>

OpBlock(loc) == [op |-> "Block", loc |-> loc]
OpLoop(loc) == [op |-> "Loop", loc |-> loc]
OpIf(loc) == [op |-> "If", loc |-> loc]
OpElse(loc) == [op |-> "Else", loc |-> loc]
OpEnd(p) == [op |-> "End", end |-> p]
OpBr(l, p) == [op |-> "Br", l |-> l, pc |-> p]
OpBrIf(l, p) == [op |-> "BrIf", l |-> l, pc |-> p]
OpBrTable(n, es, d) == [op |-> "BrTable", count |-> n, entries |-> es, dft |-> d]

(***************************************************************************)
(* Instructions of the input stream.                                       *)
(***************************************************************************)
TBlock == [op |-> "block"]
TLoop == [op |-> "loop"]
TIf == [op |-> "if"]
TElse == [op |-> "else"]
TEnd == [op |-> "end"]
TBr(l) == [op |-> "br", l |-> l]
TBrIf(l) == [op |-> "br_if", l |-> l]
TBrTable(ls, d) == [op |-> "br_table", ls |-> ls, d |-> d]
TNop == [op |-> "Nop"]

(***************************************************************************)
(* ByteCode::parse_code.  The parser state st holds the cursor (toks,      *)
(* off), the shared instruction array ops, the branch-target stack blocks  *)
(* and status: "ok", "err" (an Err is returned) or "panic" (an index out   *)
(* of bounds aborts the decoder).  The result is st together with the      *)
(* returned triple pos.                                                    *)
(***************************************************************************)
PushOp(st, o) == [st EXCEPT !.ops = Append(@, o)]

SetOp(st, i, o) == [st EXCEPT !.ops[i + 1] = o]

BlockTarget(blocks, label) == At(blocks, Len(blocks) - 1 - label)

BlockEntry(pos0) == Max(0, pos0 - 1)

ParseResult(st, pos0, pos1) ==
    [st |-> st, pos |-> <<pos0, pos1, Len(st.ops) - 1>>]

RECURSIVE ParseCode(_)
RECURSIVE ParseLoop(_, _, _)

ParseConstruct(st, t, pos0, pos1) ==
    LET last == Len(st.ops)
        mk(loc) == CASE t.op = "block" -> OpBlock(loc)
                     [] t.op = "loop" -> OpLoop(loc)
                     [] OTHER -> OpIf(loc)
        placeholder == IF t.op = "if" THEN mk(Location(last, 0, 0))
                       ELSE mk(Location(0, 0, 0))
        r == ParseCode(PushOp(st, placeholder))
        n == Len(r.st.ops)
        loc == IF t.op = "if" THEN Location(last + 1, r.pos[2], n - 1)
               ELSE Location(last + 1, n - 1, n - 1)
    IN IF r.st.status # "ok" THEN ParseResult(r.st, pos0, pos1)
       ELSE ParseLoop(SetOp(r.st, last, mk(loc)), pos0, pos1)

ParseElse(st, pos0) ==
    LET s1 == PushOp(st, OpBr(0, Last(st.blocks)))
        last == Len(s1.ops)
        r == ParseCode(PushOp(s1, OpElse(Location(0, 0, 0))))
        n == Len(r.st.ops)
        s2 == SetOp(r.st, last, OpElse(Location(last + 1, n - 1, n - 1)))
    IN IF r.st.status # "ok" THEN ParseResult(r.st, pos0, 0)
       ELSE ParseResult([s2 EXCEPT !.blocks = Pop(@)], pos0, last)

ParseEnd(st, pos0) ==
    LET s1 == PushOp(st, OpEnd(pos0))
    IN ParseResult([s1 EXCEPT !.blocks = Pop(@)], pos0, Len(s1.ops) - 1)

LabelsInRange(st, ls) == \A k \in 1..Len(ls) : ls[k] < Len(st.blocks)

ParseBranch(st, t) ==
    CASE t.op = "br" ->
            IF LabelsInRange(st, <<t.l>>)
            THEN PushOp(st, OpBr(t.l, BlockTarget(st.blocks, t.l)))
            ELSE [st EXCEPT !.status = "panic"]
      [] t.op = "br_if" ->
            IF LabelsInRange(st, <<t.l>>)
            THEN PushOp(st, OpBrIf(t.l, BlockTarget(st.blocks, t.l)))
            ELSE [st EXCEPT !.status = "panic"]
      [] OTHER ->
            IF LabelsInRange(st, Append(t.ls, t.d))
            THEN PushOp(st, OpBrTable(Len(t.ls),
                     [k \in 1..Len(t.ls) |-> <<t.ls[k], BlockTarget(st.blocks, t.ls[k])>>],
                     <<t.d, BlockTarget(st.blocks, t.d)>>))
            ELSE [st EXCEPT !.status = "panic"]

ParseLoop(st, pos0, pos1) ==
    IF st.status # "ok" \/ ~(st.off < Len(st.toks)) THEN ParseResult(st, pos0, pos1)
    ELSE LET t == At(st.toks, st.off)
             s == [st EXCEPT !.off = @ + 1]
         IN CASE t.op \in {"block", "loop", "if"} -> ParseConstruct(s, t, pos0, pos1)
              [] t.op = "else" -> ParseElse(s, pos0)
              [] t.op = "end" -> ParseEnd(s, pos0)
              [] t.op \in {"br", "br_if", "br_table"} -> ParseLoop(ParseBranch(s, t), pos0, pos1)
              [] t.op = "unknown" -> ParseResult([s EXCEPT !.status = "err"], pos0, pos1)
              [] OTHER -> ParseLoop(PushOp(s, t), pos0, pos1)

ParseCode(st) ==
    LET pos0 == Len(st.ops)
    IN ParseLoop([st EXCEPT !.blocks = Append(@, BlockEntry(pos0))], pos0, 0)

(***************************************************************************)
(* The sections that hold code: each entry is decoded by parse_code with   *)
(* a fresh branch-target stack, all entries of a section reading from the  *)
(* section's cursor one after the other.  Reading the header of an entry   *)
(* at the end of the section aborts (leb::decode_leb_u32 slices an empty   *)
(* buffer).  The result lists the returned spans.                          *)
(***************************************************************************)
Cursor(toks, o) == [toks |-> toks, off |-> 0, ops |-> o, blocks |-> <<>>, status |-> "ok"]

RECURSIVE DecodeEntries(_, _, _, _)
DecodeEntries(st, count, spans, eof) ==
    IF count = 0 \/ st.status # "ok" THEN [st |-> st, spans |-> spans]
    ELSE IF ~(st.off < Len(st.toks))
         THEN [st |-> [st EXCEPT !.status = eof], spans |-> spans]
         ELSE LET r == ParseCode([st EXCEPT !.blocks = <<>>])
              IN DecodeEntries(r.st, count - 1,
                     IF r.st.status = "ok" THEN Append(spans, r.pos) ELSE spans, eof)

(* prev is the result of the section decoded before: its instruction      *)
(* array is appended to, and a failure of it ends the decoding.            *)
DecodeSection(sec, prev, eof) ==
    IF prev.st.status # "ok" THEN [st |-> prev.st, spans |-> <<>>]
    ELSE DecodeEntries(Cursor(sec.stream, prev.st.ops), sec.count, <<>>, eof)

(***************************************************************************)
(* WasmModule::decode over the sections of the image, in the order of      *)
(* their ids: global (6), element (9), code (10), data (11) append to the  *)
(* instruction array; the other sections are taken as decoded.             *)
(***************************************************************************)
Decoded(m, g, e, c, d) ==
    [status |-> d.st.status,
     ops |-> d.st.ops,
     section |->
       [types |-> m.types, import |-> m.import, func |-> m.func,
        table |-> m.table, memory |-> m.memory, export |-> m.export,
        global |-> [k \in 1..Len(g.spans) |->
                       [mutability |-> m.global.mut[k], expr |-> g.spans[k]]],
        element |-> [k \in 1..Len(e.spans) |->
                       [ele |-> <<e.spans[k], m.element.funcs[k]>>]],
        code |-> [k \in 1..Len(c.spans) |->
                       [locales |-> m.code.locales[k], code |-> c.spans[k]]],
        data |-> [k \in 1..Len(d.spans) |->
                       [kind |-> <<d.spans[k], m.data.bytes[k]>>]]]]

DecodeData(m, g, e, c) == Decoded(m, g, e, c, DecodeSection(m.data, c, "panic"))

DecodeCode(m, g, e) == DecodeData(m, g, e, DecodeSection(m.code, e, "panic"))

DecodeElement(m, g) == DecodeCode(m, g, DecodeSection(m.element, g, "panic"))

DecodeModule(m) ==
    DecodeElement(m, DecodeSection(m.global, [st |-> Cursor(<<>>, <<>>), spans |-> <<>>], "err"))

(***************************************************************************)
(* Values and the machine state of WasmModule::default.                    *)
(***************************************************************************)
MaxSlot == 8

NOP == [t |-> "NOP", v |-> 0]
I32(v) == [t |-> "I32", v |-> v]
U32(v) == [t |-> "U32", v |-> v]
I64(v) == [t |-> "I64", v |-> v]
F32(v) == [t |-> "F32", v |-> v]
F64(v) == [t |-> "F64", v |-> v]

EmptySection ==
    [types |-> <<>>, import |-> <<>>, func |-> <<>>, table |-> <<>>, memory |-> <<>>,
     export |-> <<>>, global |-> <<>>, element |-> <<>>, code |-> <<>>, data |-> <<>>]

Default ==
    [pc |-> 0, sp |-> 0, fp |-> 0,
     stack |-> [i \in 0..MaxSlot |-> NOP], slen |-> 0,
     table |-> <<>>, mem |-> <<>>, global |-> <<>>, exports |-> [n \in {} |-> 0],
     func |-> <<>>,
     frames |-> <<>>, mode |-> "idle", res |-> <<>>, left |-> 0, taken |-> FALSE,
     instances |-> 0, reentries |-> 0,
     status |-> "ok", result |-> "none", panic |-> "none"]

(***************************************************************************)
(* Machine arithmetic.  A usize that wrapped below zero is represented by  *)
(* the negative number congruent to it; every index check then fails on    *)
(* it, as it does on the huge positive value in the program.  With         *)
(* overflow_checks (a debug build) an overflowing operation panics, without *)
(* (a release build) it wraps.  Signed division overflow and division by   *)
(* zero panic in every build.                                              *)
(***************************************************************************)
INT32_MIN == -2147483647 - 1
INT32_MAX == 2147483647
PAGE_SIZE == 65536
STACK_SLAB == 512

Panic(m, why) == [m EXCEPT !.status = "panic", !.panic = why]

Unmodelled(m) == [m EXCEPT !.status = "unmodelled"]

(* call and run call each other on the native stack of the process, one   *)
(* pair of native frames for every activation.  NativeDepth bounds the     *)
(* activations the native stack holds; the activation beyond it overflows  *)
(* the native stack, which ends the process.                               *)
NativeDepth == 4

Abort(m) == [m EXCEPT !.status = "abort", !.panic = "stack overflow"]

Then(m, F(_)) == IF m.status # "ok" THEN m ELSE F(m)

(* Rust's / on integers truncates towards zero; \div rounds down.          *)
TruncDivPos(a, b) == IF a < 0 /\ a % b # 0 THEN (a \div b) + 1 ELSE a \div b

TruncDiv(a, b) ==
    IF b > 0 THEN TruncDivPos(a, b)
    ELSE IF b = INT32_MIN THEN (IF a = INT32_MIN THEN 1 ELSE 0)
    ELSE 0 - TruncDivPos(a, 0 - b)

AddOverflows(a, b) == \/ b > 0 /\ a > INT32_MAX - b
                      \/ b < 0 /\ a < INT32_MIN - b

WrapAdd(a, b) ==
    IF b > 0 /\ a > INT32_MAX - b THEN ((a - INT32_MAX) - 1) + ((b - INT32_MAX) - 1)
    ELSE IF b < 0 /\ a < INT32_MIN - b THEN ((a + INT32_MAX) + 1) + ((b + INT32_MAX) + 1)
    ELSE a + b

(* The result of an operator on two WasmValues: a value, or a panic.       *)
Val(v) == [ok |-> TRUE, val |-> v]
Fail(why) == [ok |-> FALSE, why |-> why]

IntTags == {"I32", "U32", "I64", "U64"}

ValueAdd(v1, v2) ==
    IF v1.t # v2.t \/ v1.t = "NOP" THEN Fail("todo")
    ELSE IF v1.t # "I32" /\ AddOverflows(v1.v, v2.v) THEN Fail("unmodelled")
    ELSE IF AddOverflows(v1.v, v2.v)
         THEN IF overflow_checks THEN Fail("overflow")
              ELSE Val([t |-> v1.t, v |-> WrapAdd(v1.v, v2.v)])
         ELSE Val([t |-> v1.t, v |-> v1.v + v2.v])

ValueDiv(v1, v2) ==
    IF v1.t # v2.t \/ v1.t = "NOP" THEN Fail("todo")
    ELSE IF v1.t \in {"F32", "F64"} THEN Fail("unmodelled")
    ELSE IF v2.v = 0 THEN Fail("divide by zero")
    ELSE IF v1.v = INT32_MIN /\ v2.v = -1
         THEN (IF v1.t = "I32" THEN Fail("divide with overflow") ELSE Fail("unmodelled"))
    ELSE Val([t |-> v1.t, v |-> TruncDiv(v1.v, v2.v)])

(* WasmValue::partial_cmp with gt: the comparison of two same-tag values.  *)
ValueGt(v1, v2) ==
    IF v1.t # v2.t \/ v1.t = "NOP" THEN Fail("todo")
    ELSE Val(v1.v > v2.v)

(* lt, le and ge of the same partial_cmp. *)
ValueLt(v1, v2) ==
    IF v1.t # v2.t \/ v1.t = "NOP" THEN Fail("todo")
    ELSE Val(v1.v < v2.v)

ValueLe(v1, v2) ==
    IF v1.t # v2.t \/ v1.t = "NOP" THEN Fail("todo")
    ELSE Val(v1.v <= v2.v)

ValueGe(v1, v2) ==
    IF v1.t # v2.t \/ v1.t = "NOP" THEN Fail("todo")
    ELSE Val(v1.v >= v2.v)

(* WasmValue::I32(if .. { 1 } else { 0 }) *)
Flag(r) == IF r.ok THEN Val(I32(IF r.val THEN 1 ELSE 0)) ELSE r

CmpLt(v1, v2) == Flag(ValueLt(v1, v2))
CmpGt(v1, v2) == Flag(ValueGt(v1, v2))
CmpLe(v1, v2) == Flag(ValueLe(v1, v2))
CmpGe(v1, v2) == Flag(ValueGe(v1, v2))

(***************************************************************************)
(* Linear memory: a length, a capacity, the declared ceiling and the bytes  *)
(* that are not zero.  Vec::with_capacity(cap) followed by resize(len, 0):  *)
(* a length above the capacity makes the vector grow to the larger of twice *)
(* its capacity, the length and 8 bytes.                                    *)
(***************************************************************************)
NewMem(len, cap) ==
    [len |-> len,
     cap |-> IF len > cap THEN Max(Max(2 * cap, len), 8) ELSE cap,
     max |-> cap,
     bytes |-> <<>>]

ReadByte(mm, a) == IF a \in DOMAIN mm.bytes THEN mm.bytes[a] ELSE 0

WriteByte(mm, a, b) ==
    LET dom == IF b = 0 THEN DOMAIN mm.bytes \ {a} ELSE DOMAIN mm.bytes \cup {a}
    IN [mm EXCEPT !.bytes = [x \in dom |-> IF x = a THEN b ELSE mm.bytes[x]]]

Pow256(k) == CASE k = 0 -> 1 [] k = 1 -> 256 [] k = 2 -> 65536 [] OTHER -> 16777216

(* to_le_bytes of a two's complement integer of n bytes whose value fits   *)
(* 32 bits: the bytes above the fourth repeat the sign.                    *)
ToLeBytes(v, n) ==
    [k \in 1..n |-> IF k <= 4 THEN (v \div Pow256(k - 1)) % 256
                    ELSE IF v < 0 THEN 255 ELSE 0]

SignedByte(b) == IF b >= 128 THEN b - 256 ELSE b

FromLeBytes32(bs) == bs[1] + 256 * bs[2] + 65536 * bs[3] + 16777216 * SignedByte(bs[4])

Fits32(bs) == \A k \in 5..Len(bs) : bs[k] = (IF bs[4] >= 128 THEN 255 ELSE 0)

ByteWidth(t) == CASE t \in {"I32", "U32", "F32"} -> 4
                  [] t \in {"I64", "U64", "F64"} -> 8
                  [] OTHER -> 16

(* (offset + v as u32) as usize: the effective address, or -1 when it is   *)
(* at or above 2^31 (beyond every memory of the model), or a panic when    *)
(* the u32 addition overflows under overflow_checks.                       *)
EffectiveAddress(offset, v) ==
    IF v >= 0 THEN (IF offset > INT32_MAX - v THEN Val(-1) ELSE Val(offset + v))
    ELSE IF offset + v >= 0
         THEN (IF overflow_checks THEN Fail("overflow") ELSE Val(offset + v))
         ELSE Val(-1)

InMem(m, a) == Len(m.mem) > 0 /\ 0 <= a /\ a < m.mem[1].len

(* mem_write: the bytes of value, one index at a time; the first index out *)
(* of range panics, the bytes before it stay written.                      *)
RECURSIVE WriteBytes(_, _, _, _)
WriteBytes(m, a, bs, k) ==
    IF k > Len(bs) THEN m
    ELSE IF ~InMem(m, a + k - 1) THEN Panic(m, "index")
    ELSE WriteBytes([m EXCEPT !.mem[1] = WriteByte(@, a + k - 1, bs[k])], a, bs, k + 1)

mem_write(m, a, value) ==
    IF value.t = "NOP" THEN Panic(m, "todo")
    ELSE IF a < 0 THEN Panic(m, "index")
    ELSE WriteBytes(m, a, ToLeBytes(value.v, ByteWidth(value.t)), 1)

(* mem_read: the value of the template's type read at a, or a panic.       *)
mem_read(m, a, t) ==
    LET n == ByteWidth(t)
        bs == [k \in 1..n |-> ReadByte(m.mem[1], a + k - 1)]
    IN IF a < 0 \/ \E k \in 1..n : ~InMem(m, a + k - 1) THEN Fail("index")
       ELSE IF ~Fits32(bs) THEN Fail("unmodelled")
       ELSE Val([t |-> t, v |-> FromLeBytes32(bs)])

(***************************************************************************)
(* The value stack.  Slots 0..MaxSlot of the vector are kept; slen is the  *)
(* length of the vector.                                                   *)
(***************************************************************************)
InStack(m, i) == 0 <= i /\ i < m.slen

Slots(m, idxs, F(_)) ==
    IF \E i \in idxs : ~InStack(m, i) THEN Panic(m, "index")
    ELSE IF \E i \in idxs : i > MaxSlot THEN Unmodelled(m)
    ELSE F(m)

(* self.sp -= n *)
Dec(m, n) ==
    IF overflow_checks /\ m.sp - n < 0 THEN Panic(m, "overflow")
    ELSE [m EXCEPT !.sp = @ - n]

(* self.sp += 1; self.stack[self.sp] = v *)
Push(m, v) ==
    Slots(m, {m.sp + 1}, LAMBDA x : [x EXCEPT !.sp = @ + 1, !.stack[m.sp + 1] = v])

RECURSIVE PushAll(_, _, _)
PushAll(m, vs, k) ==
    IF k > Len(vs) \/ m.status # "ok" THEN m
    ELSE PushAll(Push(m, vs[k]), vs, k + 1)

(* run without its pc += 1. *)
Stay(m) == m

Advance(m) == IF m.status = "ok" THEN [m EXCEPT !.pc = @ + 1] ELSE m

(***************************************************************************)
(* WasmModule::call and the return from WasmModule::run.  A frame records  *)
(* one activation of run: the entry pc (offset), the values call saved     *)
(* (pc, fp, sp), the counts read from the function type and who called:    *)
(* via = "op" for the Call/CallIndirect arms of run, "start" for start(),  *)
(* kind = "init" for the run of an initializer expression by instance(),   *)
(* via = "host" for a call made by the callback of an Import function,     *)
(* which is handed the module; calls counts the calls the callback of the  *)
(* frame has made.                                                         *)
(***************************************************************************)
Frame(kind, offset, m, pcnt, rcnt, via, idx) ==
    [kind |-> kind, offset |-> offset, pc |-> m.pc, fp |-> m.fp, sp |-> m.sp,
     param_count |-> pcnt, result_count |-> rcnt, via |-> via, idx |-> idx,
     calls |-> 0]

Types(m) == IF m.taken THEN <<>> ELSE section.types

ZeroValue(ty) ==
    CASE ty = "I32" -> Val(I32(0))
      [] ty = "I64" -> Val(I64(0))
      [] ty = "F32" -> Val(F32(0))
      [] ty = "F64" -> Val([t |-> "F64", v |-> 0])
      [] ty = "V128" -> Val([t |-> "V128", v |-> 0])
      [] OTHER -> Fail("todo")

RECURSIVE PushLocals(_, _, _, _)
PushLocals(m, locales, g, n) ==
    IF m.status # "ok" \/ g > Len(locales) THEN m
    ELSE IF n >= locales[g][1] THEN PushLocals(m, locales, g + 1, 0)
    ELSE LET z == ZeroValue(locales[g][2])
         IN IF ~z.ok THEN Panic(Slots(m, {m.sp + 1}, LAMBDA x : [x EXCEPT !.sp = @ + 1]), z.why)
            ELSE PushLocals(Push(m, z.val), locales, g, n + 1)

(* fp set to the slot above the arguments. *)
CalleeFpAboveArgs(sp, param_count) == sp + 1

CalleeFp(sp, param_count) == sp - param_count + 1

CallImport(m, idx, func, ty, via) ==
    LET newfp == CalleeFp(m.sp, ty.param_count)
    IN Slots(m, {newfp + i : i \in 0..(ty.param_count - 1)},
             LAMBDA x : [x EXCEPT !.fp = newfp,
                                  !.frames = Append(@, Frame("host", 0, m, ty.param_count,
                                                             ty.result_count, via, idx)),
                                  !.mode = "host"])

RECURSIVE LocalCount(_)
LocalCount(locales) ==
    IF locales = <<>> THEN 0 ELSE Head(locales)[1] + LocalCount(Tail(locales))

(* The loop over the declared locals writes stack[sp] after each sp += 1:  *)
(* when the locals do not fit below the length of the vector the write     *)
(* that reaches it panics, whatever was pushed before.                     *)
LocalsOverrun(m, locales) ==
    /\ \A g \in 1..Len(locales) : ZeroValue(locales[g][2]).ok
    /\ m.sp + LocalCount(locales) >= m.slen

CallLocal(m, idx, func, ty, via) ==
    LET m1 == [m EXCEPT !.fp = CalleeFp(m.sp, ty.param_count),
                        !.slen = Max(@, m.sp + STACK_SLAB)]
        m2 == IF LocalsOverrun(m1, func.body.locales) THEN Panic(m1, "index")
              ELSE PushLocals(m1, func.body.locales, 1, 0)
    IN Then(m2, LAMBDA x : [x EXCEPT !.frames = Append(@, Frame("local", func.body.code[1], m,
                                                          ty.param_count, ty.result_count,
                                                          via, idx)),
                                     !.pc = func.body.code[1],
                                     !.mode = "exec"])

call(m, idx, via) ==
    IF Len(m.frames) >= NativeDepth THEN Abort(m)
    ELSE IF ~(0 <= idx /\ idx < Len(m.func)) THEN Panic(m, "index")
    ELSE LET func == At(m.func, idx)
         IN IF ~(func.ty < Len(Types(m))) THEN Panic(m, "index")
            ELSE LET ty == At(Types(m), func.ty)
                 IN IF overflow_checks /\ m.sp - ty.param_count < 0
                    THEN Panic(m, "overflow")
                    ELSE IF func.kind = "Import" THEN CallImport(m, idx, func, ty, via)
                    ELSE CallLocal(m, idx, func, ty, via)

CallerSpFromCallee(saved_sp, callee_sp, param_count) == callee_sp - param_count

(* The sp call leaves before its results are pushed: the parameters are    *)
(* taken off the sp saved on entry.                                        *)
CallerSp(saved_sp, callee_sp, param_count) == saved_sp - param_count

(* res of a Local call: result_count values read downwards from the        *)
(* callee's top of stack.                                                  *)
CollectResults(m, rsp, rcnt) == [k \in 1..rcnt |-> m.stack[rsp - (k - 1)]]

(* A call epilogue that leaves fp where the callee had it. *)
CallEpilogueKeepsFp(m, f, res) ==
    [m EXCEPT !.pc = f.pc,
              !.sp = CallerSp(f.sp, m.sp, f.param_count),
              !.res = res, !.left = m.sp, !.mode = "ret"]

CallEpilogue(m, f, res) ==
    [m EXCEPT !.pc = f.pc, !.fp = f.fp,
              !.sp = CallerSp(f.sp, m.sp, f.param_count),
              !.res = res, !.left = m.sp, !.mode = "ret"]

RunReturn(m) ==
    LET f == Last(m.frames)
    IN IF f.kind = "init" THEN [m EXCEPT !.frames = Pop(@)]
       ELSE IF overflow_checks /\ f.sp - f.param_count < 0 THEN Panic(m, "overflow")
       ELSE IF f.result_count = 0 THEN CallEpilogue(m, f, <<>>)
       ELSE IF overflow_checks /\ m.sp - f.result_count < 0 THEN Panic(m, "overflow")
       ELSE Slots(m, {m.sp - k : k \in 0..(f.result_count - 1)},
                  LAMBDA x : CallEpilogue(x, f, CollectResults(x, x.sp, f.result_count)))

(* The rest of the caller once call has returned res: the Call and         *)
(* CallIndirect arms push res and run advances pc; start returns Ok.       *)
FinishCall(m) ==
    LET f == Last(m.frames)
        m1 == [m EXCEPT !.frames = Pop(@), !.res = <<>>]
    IN IF f.via = "start" THEN [m1 EXCEPT !.mode = "idle", !.result = "Ok"]
       ELSE IF f.via = "host" THEN [m1 EXCEPT !.mode = "host"]
       ELSE Advance(PushAll([m1 EXCEPT !.mode = "exec"], m.res, 1))

(* The callback of an Import function, which holds the module, pushes the *)
(* arguments of function idx and calls it.                                 *)
HostArgs(n) == [k \in 1..n |-> I32(3)]

ParamCount(m, idx) == At(Types(m), At(m.func, idx).ty).param_count

HostReenter(m, idx) ==
    Then(PushAll([m EXCEPT !.frames[Len(m.frames)].calls = @ + 1, !.reentries = @ + 1],
                 HostArgs(ParamCount(m, idx)), 1),
         LAMBDA x : call(x, idx, "host"))

(* The callback of an Import function returns res.                         *)
HostEpilogue(m, res) ==
    LET f == Last(m.frames)
    IN IF overflow_checks /\ f.sp - f.param_count < 0 THEN Panic(m, "overflow")
       ELSE CallEpilogue(m, f, res)

(***************************************************************************)
(* WasmModule::jump and one iteration of the loop of WasmModule::run.      *)
(***************************************************************************)
(* jump taking a Loop for a Block. *)
jumpOut(m, offset) ==
    IF ~(0 <= offset /\ offset < Len(ops)) THEN Panic(m, "index")
    ELSE LET op == At(ops, offset)
         IN CASE op.op \in {"Block", "If", "Else", "Loop"} -> [m EXCEPT !.pc = op.loc[3]]
              [] OTHER -> m

(* jump taking the values of the block it leaves off the stack. *)
jumpUnwinding(m, offset) ==
    IF ~(0 <= offset /\ offset < Len(ops)) THEN Panic(m, "index")
    ELSE LET op == At(ops, offset)
         IN CASE op.op \in {"Block", "If", "Else"} ->
                    [m EXCEPT !.pc = op.loc[3], !.sp = Max(m.fp - 1, 0)]
              [] op.op = "Loop" -> [m EXCEPT !.pc = op.loc[1], !.sp = Max(m.fp - 1, 0)]
              [] OTHER -> m

jump(m, offset) ==
    IF ~(0 <= offset /\ offset < Len(ops)) THEN Panic(m, "index")
    ELSE LET op == At(ops, offset)
         IN CASE op.op \in {"Block", "If", "Else"} -> [m EXCEPT !.pc = op.loc[3]]
              [] op.op = "Loop" -> [m EXCEPT !.pc = op.loc[1]]
              [] OTHER -> m

(* The test of If and BrIf on the popped I32.                              *)
Truthy(v) == v > 0

ExecIf(m, op) ==
    Slots(m, {m.sp}, LAMBDA x :
        LET result == x.stack[x.sp]
        IN Then(Dec(x, 1), LAMBDA y :
               IF result.t = "I32"
               THEN [y EXCEPT !.pc = IF Truthy(result.v) THEN op.loc[1] ELSE op.loc[2]]
               ELSE Advance(y)))

ExecBrIf(m, op) ==
    Slots(m, {m.sp}, LAMBDA x :
        LET result == x.stack[x.sp]
        IN Then(Dec(x, 1), LAMBDA y :
               IF result.t = "I32" /\ Truthy(result.v) THEN jump(y, op.pc)
               ELSE Advance(y)))

(* BrTable comparing the index as a signed number. *)
ExecBrTableSigned(m, op) ==
    Slots(m, {m.sp}, LAMBDA x :
        LET tar == x.stack[x.sp]
        IN Then(Dec(x, 1), LAMBDA y :
               IF tar.t = "I32"
               THEN IF tar.v < op.count
                    THEN jump(y, At(op.entries, Max(tar.v, 0))[2])
                    ELSE jump(y, op.dft[2])
               ELSE Advance(y)))

ExecBrTable(m, op) ==
    Slots(m, {m.sp}, LAMBDA x :
        LET tar == x.stack[x.sp]
        IN Then(Dec(x, 1), LAMBDA y :
               IF tar.t = "I32"
               THEN IF 0 <= tar.v /\ tar.v < op.count
                    THEN jump(y, At(op.entries, tar.v)[2])
                    ELSE jump(y, op.dft[2])
               ELSE Advance(y)))

(* call_indirect taking index 0 in a slot for an empty slot and trapping. *)
ExecCallIndirectNull(m, op) ==
    Slots(m, {m.sp}, LAMBDA x :
        LET idx == x.stack[x.sp]
        IN Then(Dec(x, 1), LAMBDA y :
               IF idx.t # "I32" THEN Advance(y)
               ELSE IF ~(op.y < Len(y.table)) THEN Panic(y, "index")
               ELSE IF ~(0 <= idx.v /\ idx.v < Len(At(y.table, op.y))) THEN Panic(y, "index")
               ELSE IF At(At(y.table, op.y), idx.v) = 0 THEN [y EXCEPT !.result = "Err"]
               ELSE call(y, At(At(y.table, op.y), idx.v), "op")))

ExecCallIndirect(m, op) ==
    Slots(m, {m.sp}, LAMBDA x :
        LET idx == x.stack[x.sp]
        IN Then(Dec(x, 1), LAMBDA y :
               IF idx.t # "I32" THEN Advance(y)
               ELSE IF ~(op.y < Len(y.table)) THEN Panic(y, "index")
               ELSE IF ~(0 <= idx.v /\ idx.v < Len(At(y.table, op.y))) THEN Panic(y, "index")
               ELSE call(y, At(At(y.table, op.y), idx.v), "op")))

ExecSelect(m) ==
    Slots(m, {m.sp, m.sp - 1, m.sp - 2}, LAMBDA x :
        LET con == x.stack[x.sp]
            mid == x.stack[x.sp - 1]
            bot == x.stack[x.sp - 2]
            gt == ValueGt(con, I32(0))
        IN IF ~gt.ok THEN Panic([x EXCEPT !.sp = @ - 2], gt.why)
           ELSE Advance([x EXCEPT !.sp = @ - 2,
                                  !.stack[x.sp - 2] = IF gt.val THEN bot ELSE mid]))

ExecLocalGet(m, op) ==
    Slots(m, {m.sp + 1, m.fp + op.x}, LAMBDA x :
        Advance([x EXCEPT !.sp = @ + 1, !.stack[x.sp + 1] = x.stack[x.fp + op.x]]))

ExecLocalSet(m, op) ==
    Slots(m, {m.sp, m.fp + op.x}, LAMBDA x :
        Advance(Dec([x EXCEPT !.stack[x.fp + op.x] = x.stack[x.sp]], 1)))

ExecLocalTee(m, op) ==
    Slots(m, {m.sp, m.fp + op.x}, LAMBDA x :
        Advance([x EXCEPT !.stack[x.fp + op.x] = x.stack[x.sp]]))

ExecGlobalGet(m, op) ==
    IF ~(op.x < Len(m.global)) THEN Panic(m, "index")
    ELSE Advance(Push(m, At(m.global, op.x).val))

(* The global the GlobalSet arm stores for the popped value v.             *)
GlobalStore(old, v) == [kind |-> "Var", val |-> v]

ExecGlobalSet(m, op) ==
    Slots(m, {m.sp}, LAMBDA x :
        LET v == x.stack[x.sp]
        IN Then(Dec(x, 1), LAMBDA y :
               IF ~(op.x < Len(y.global)) THEN Panic(y, "index")
               ELSE Advance([y EXCEPT !.global[op.x + 1] = GlobalStore(@, v)])))

(* The address operand of a load or store, by the tag of the popped value. *)
AddressOf(offset, addr) ==
    CASE addr.t = "I32" -> EffectiveAddress(offset, addr.v)
      [] addr.t = "U32" -> EffectiveAddress(offset, addr.v)
      [] OTHER -> Fail("todo")

ExecLoad(m, op, t) ==
    Slots(m, {m.sp}, LAMBDA x :
        LET ea == AddressOf(op.offset, x.stack[x.sp])
            r == mem_read(x, ea.val, t)
        IN IF ~ea.ok THEN Panic(x, ea.why)
           ELSE IF ~r.ok THEN (IF r.why = "unmodelled" THEN Unmodelled(x) ELSE Panic(x, r.why))
           ELSE Advance([x EXCEPT !.stack[x.sp] = r.val]))

(* The I32 pushed by i32.load8_s for the byte read.                        *)
Load8s(byte) ==
    IF byte >= 128 THEN (0 - (255 - (byte - 128))) - 1 ELSE byte

Load8u(byte) == byte

ExecLoad8(m, op, F(_)) ==
    Slots(m, {m.sp}, LAMBDA x :
        LET ea == AddressOf(op.offset, x.stack[x.sp])
        IN IF ~ea.ok THEN Panic(x, ea.why)
           ELSE IF ~InMem(x, ea.val) THEN Panic(x, "index")
           ELSE Advance([x EXCEPT !.stack[x.sp] = I32(F(ReadByte(x.mem[1], ea.val)))]))

ExecLoad32s(m, op) ==
    Slots(m, {m.sp}, LAMBDA x :
        LET ea == AddressOf(op.offset, x.stack[x.sp])
            r == mem_read(x, ea.val, "I32")
        IN IF ~ea.ok THEN Panic(x, ea.why)
           ELSE IF ~r.ok THEN Panic(x, r.why)
           ELSE Advance([x EXCEPT !.stack[x.sp] = I64(r.val.v)]))

ExecStore(m, op) ==
    Slots(m, {m.sp, m.sp - 1}, LAMBDA x :
        LET value == x.stack[x.sp]
            ea == AddressOf(op.offset, x.stack[x.sp - 1])
        IN Then(Dec(x, 2), LAMBDA y :
               IF ~ea.ok THEN Panic(y, ea.why)
               ELSE Advance(mem_write(y, ea.val, value))))

ExecStore8(m, op) ==
    Slots(m, {m.sp, m.sp - 1}, LAMBDA x :
        LET value == x.stack[x.sp]
            addr == x.stack[x.sp - 1]
            ea == EffectiveAddress(op.offset, addr.v)
        IN Then(Dec(x, 2), LAMBDA y :
               IF ~(addr.t \in {"U32", "I32"} /\ value.t = "I32") THEN Advance(y)
               ELSE IF ~ea.ok THEN Panic(y, ea.why)
               ELSE IF ~InMem(y, ea.val) THEN Panic(y, "index")
               ELSE Advance([y EXCEPT !.mem[1] =
                                WriteByte(@, ea.val, ToLeBytes(value.v, 4)[1])])))

(* val as i64 of an i32: the I64 of the same signed value. *)
ExecExtendU(m) ==
    Slots(m, {m.sp}, LAMBDA x :
        LET val == x.stack[x.sp]
        IN Advance(IF val.t = "I32" THEN [x EXCEPT !.stack[x.sp] = I64(val.v)] ELSE x))

ExecBinary(m, F(_, _)) ==
    Slots(m, {m.sp, m.sp - 1}, LAMBDA x :
        LET r == F(x.stack[x.sp - 1], x.stack[x.sp])
            y == [x EXCEPT !.sp = @ - 1]
        IN IF ~r.ok THEN (IF r.why = "unmodelled" THEN Unmodelled(y) ELSE Panic(y, r.why))
           ELSE Advance([y EXCEPT !.stack[x.sp - 1] = r.val]))

Todo == {"RefNull", "RefIsNull", "RefFunc", "SelectType", "TableGet", "TableSet",
         "I32Load16s", "I32Load16u", "I64Load8s", "I64Load8u", "I64Load16s",
         "I64Load16u", "I64Load32u", "F32Store", "F64Store", "I32Store16",
         "I64Store8", "I64Store16", "I64Store32", "MemorySize", "MemoryGrow",
         "I32RemS", "I32RemU", "Reserved"}

ExecOp(m, op, offset) ==
    CASE op.op = "none" -> Panic(m, "index")
      [] op.op = "Unreachable" -> Panic(m, "unreachable")
      [] op.op \in Todo -> Panic(m, "todo")
      [] op.op \in {"Nop", "Block", "Loop", "Else"} -> Advance(m)
      [] op.op = "If" -> ExecIf(m, op)
      [] op.op = "End" -> IF op.end = offset THEN RunReturn(m) ELSE Advance(m)
      [] op.op = "Br" -> jump(m, op.pc)
      [] op.op = "BrIf" -> ExecBrIf(m, op)
      [] op.op = "BrTable" -> ExecBrTable(m, op)
      [] op.op = "Return" -> RunReturn(m)
      [] op.op = "Call" -> call(m, op.x, "op")
      [] op.op = "CallIndirect" -> ExecCallIndirect(m, op)
      [] op.op = "Drop" -> Advance(Dec(m, 1))
      [] op.op = "Select" -> ExecSelect(m)
      [] op.op = "LocalGet" -> ExecLocalGet(m, op)
      [] op.op = "LocalSet" -> ExecLocalSet(m, op)
      [] op.op = "LocalTee" -> ExecLocalTee(m, op)
      [] op.op = "GlobalGet" -> ExecGlobalGet(m, op)
      [] op.op = "GlobalSet" -> ExecGlobalSet(m, op)
      [] op.op = "I32Load" -> ExecLoad(m, op, "I32")
      [] op.op = "I64Load" -> ExecLoad(m, op, "I64")
      [] op.op = "F32Load" -> ExecLoad(m, op, "F32")
      [] op.op = "F64Load" -> ExecLoad(m, op, "F64")
      [] op.op = "I32Load8s" -> ExecLoad8(m, op, Load8s)
      [] op.op = "I32Load8u" -> ExecLoad8(m, op, Load8u)
      [] op.op = "I64Load32s" -> ExecLoad32s(m, op)
      [] op.op \in {"I32Store", "I64Store"} -> ExecStore(m, op)
      [] op.op = "I32Store8" -> ExecStore8(m, op)
      [] op.op = "I32Const" -> Advance(Push(m, I32(op.v)))
      [] op.op = "I64Const" -> Advance(Push(m, I64(op.v)))
      [] op.op = "F32Const" -> Advance(Push(m, F32(op.v)))
      [] op.op = "F64Const" -> Advance(Push(m, F64(op.v)))
      [] op.op \in {"I32Add", "I64Add"} -> ExecBinary(m, ValueAdd)
      [] op.op \in {"I32DivS", "I64DivS", "F32Div", "F64Div"} -> ExecBinary(m, ValueDiv)
      [] op.op \in {"I32DivU", "I64DivU"} -> ExecBinary(m, ValueDiv)
      [] op.op = "I64ExtendsI32u" -> ExecExtendU(m)
      [] op.op \in {"I32Lts", "I64Lts"} -> ExecBinary(m, CmpLt)
      [] op.op \in {"I32Ltu", "I64Ltu"} -> ExecBinary(m, CmpLt)
      [] op.op \in {"I32Gts", "I64Gts"} -> ExecBinary(m, CmpGt)
      [] op.op \in {"I32Gtu", "I64Gtu"} -> ExecBinary(m, CmpGt)
      [] op.op \in {"I32Les", "I64Les"} -> ExecBinary(m, CmpLe)
      [] op.op \in {"I32Leu", "I64Leu"} -> ExecBinary(m, CmpLe)
      [] op.op \in {"I32Ges", "I64Ges"} -> ExecBinary(m, CmpGe)
      [] op.op \in {"I32Geu", "I64Geu"} -> ExecBinary(m, CmpGe)
      [] OTHER -> Unmodelled(m)

Fetch(m) == IF 0 <= m.pc /\ m.pc < Len(ops) THEN At(ops, m.pc) ELSE [op |-> "none"]

RunStep(m) == ExecOp(m, Fetch(m), Last(m.frames).offset)

(* run(offset) to its return, for the initializer expressions.             *)
MaxInitSteps == 6

RECURSIVE RunLoop(_, _, _)
RunLoop(m, depth, fuel) ==
    IF m.status # "ok" \/ Len(m.frames) < depth THEN m
    ELSE IF fuel = 0 \/ m.mode = "host" THEN Unmodelled(m)
    ELSE RunLoop(IF m.mode = "ret" THEN FinishCall(m) ELSE RunStep(m), depth, fuel - 1)

run(m, offset) ==
    LET m1 == [m EXCEPT !.pc = offset, !.mode = "exec",
                        !.frames = Append(@, Frame("init", offset, m, 0, 0, "instance", 0))]
    IN RunLoop(m1, Len(m1.frames), MaxInitSteps)

(***************************************************************************)
(* WasmModule::instance.  The section is taken out of the module for the   *)
(* duration of the call (m.taken) and the code entries are moved into the  *)
(* function array, which leaves default bodies behind in the section.      *)
(***************************************************************************)
DefaultBody == [locales |-> <<>>, code |-> <<0, 0, 0>>]

Range(s) == {s[k] : k \in 1..Len(s)}

(* import_object.as_ref().unwrap().get(mod_name).unwrap().get(field_name)  *)
(* .unwrap(): whether each of the three unwraps finds a value.             *)
ImportKey(ipt) == <<ipt.mod_name, ipt.field_name>>

ImportFound(io, ipt) ==
    /\ io.some
    /\ ipt.mod_name \in DOMAIN io.map
    /\ ipt.field_name \in DOMAIN io.map[ipt.mod_name]

RECURSIVE InstImports(_, _, _, _)
InstImports(m, entries, io, k) ==
    IF m.status # "ok" \/ k > Len(entries) THEN m
    ELSE LET ipt == entries[k]
         IN IF ~ImportFound(io, ipt) THEN Panic(m, "unwrap")
            ELSE LET v == io.map[ipt.mod_name][ipt.field_name]
                     m1 == CASE ipt.kind = "Func" ->
                                  IF v.kind = "Func"
                                  THEN [m EXCEPT !.func = Append(@, [kind |-> "Import", ty |-> ipt.ty,
                                                                      body |-> DefaultBody,
                                                                      f |-> v.f])]
                                  ELSE Panic(m, "todo")
                             [] ipt.kind = "Memory" ->
                                  [m EXCEPT !.mem = Append(@, NewMem(ipt.minimum, ipt.maximum * PAGE_SIZE))]
                             [] ipt.kind = "Global" ->
                                  IF v.kind = "Value"
                                  THEN [m EXCEPT !.global = Append(@,
                                           [kind |-> IF ipt.mutability THEN "Var" ELSE "Const",
                                            val |-> v.val])]
                                  ELSE Panic(m, "todo")
                             [] OTHER -> m
                 IN InstImports(m1, entries, io, k + 1)

RECURSIVE InstFuncs(_, _, _)
InstFuncs(ms, tys, k) ==
    IF ms.m.status # "ok" \/ k > Len(tys) THEN ms
    ELSE IF k > Len(ms.sec.code) THEN [ms EXCEPT !.m = Panic(@, "index")]
    ELSE InstFuncs([m |-> [ms.m EXCEPT !.func = Append(@, [kind |-> "Local", ty |-> tys[k],
                                                           body |-> ms.sec.code[k]])],
                    sec |-> [ms.sec EXCEPT !.code[k] = DefaultBody]],
                   tys, k + 1)

(* PopValue reading the top of the stack without taking it off. *)
PeekValue(m1) ==
    IF m1.status # "ok" THEN [m |-> m1, val |-> NOP]
    ELSE IF ~InStack(m1, m1.sp) THEN [m |-> Panic(m1, "index"), val |-> NOP]
    ELSE IF m1.sp > MaxSlot THEN [m |-> Unmodelled(m1), val |-> NOP]
    ELSE [m |-> m1, val |-> m1.stack[m1.sp]]

(* run(expr.0), then the value on top of the stack is popped.              *)
PopValue(m1) ==
    IF m1.status # "ok" THEN [m |-> m1, val |-> NOP]
    ELSE IF ~InStack(m1, m1.sp) THEN [m |-> Panic(m1, "index"), val |-> NOP]
    ELSE IF m1.sp > MaxSlot THEN [m |-> Unmodelled(m1), val |-> NOP]
    ELSE [m |-> Dec(m1, 1), val |-> m1.stack[m1.sp]]

EvalExpr(m, expr) == PopValue(run(m, expr[1]))

PushGlobal(r, mutability) ==
    Then(r.m, LAMBDA x :
        [x EXCEPT !.global = Append(@, [kind |-> IF mutability THEN "Var" ELSE "Const",
                                        val |-> r.val])])

RECURSIVE InstGlobals(_, _, _)
InstGlobals(m, entries, k) ==
    IF m.status # "ok" \/ k > Len(entries) THEN m
    ELSE InstGlobals(PushGlobal(EvalExpr(m, entries[k].expr), entries[k].mutability),
                     entries, k + 1)

RECURSIVE InstTables(_, _, _)
InstTables(m, entries, k) ==
    IF m.status # "ok" \/ k > Len(entries) THEN m
    ELSE InstTables([m EXCEPT !.table = Append(@, [i \in 1..entries[k].minimum |-> 0])],
                    entries, k + 1)

RECURSIVE WriteTable(_, _, _, _)
WriteTable(m, o, funcs, i) ==
    IF i > Len(funcs) THEN m
    ELSE IF Len(m.table) = 0 \/ ~(0 <= o + i - 1 /\ o + i - 1 < Len(m.table[1]))
         THEN Panic(m, "index")
         ELSE WriteTable([m EXCEPT !.table[1][o + i] = funcs[i]], o, funcs, i + 1)

(* InitElement copying the indices from one slot further. *)
InitElementShifted(r, funcs) ==
    Then(r.m, LAMBDA x :
        IF r.val.t \in {"U32", "I32"} THEN WriteTable(x, r.val.v + 1, funcs, 1) ELSE x)

InitElement(r, funcs) ==
    Then(r.m, LAMBDA x :
        IF r.val.t \in {"U32", "I32"} THEN WriteTable(x, r.val.v, funcs, 1) ELSE x)

RECURSIVE InstElements(_, _, _)
InstElements(m, entries, k) ==
    IF m.status # "ok" \/ k > Len(entries) THEN m
    ELSE InstElements(InitElement(EvalExpr(m, entries[k].ele[1]), entries[k].ele[2]),
                      entries, k + 1)

RECURSIVE InstMemory(_, _, _)
InstMemory(m, entries, k) ==
    IF m.status # "ok" \/ k > Len(entries) THEN m
    ELSE InstMemory([m EXCEPT !.mem = Append(@, NewMem(entries[k].minimum * PAGE_SIZE,
                                                       entries[k].maximum * PAGE_SIZE))],
                    entries, k + 1)

Resized(m, new_len) == IF m.mem[1].len < new_len THEN [m EXCEPT !.mem[1].len = new_len] ELSE m

(* An offset below zero is a huge usize: the sum with the length overflows *)
(* or wraps, and the first byte written is out of range.                   *)
DataWrite(m, o, bytes) ==
    IF Len(m.mem) = 0 THEN Panic(m, "index")
    ELSE IF o < 0
         THEN (IF Len(bytes) = 0 THEN Resized(m, m.mem[1].cap)
               ELSE Panic(m, IF overflow_checks THEN "overflow" ELSE "index"))
         ELSE WriteBytes(Resized(m, Min(o + Len(bytes), m.mem[1].cap)), o, bytes, 1)

InitData(r, bytes) ==
    Then(r.m, LAMBDA x : IF r.val.t = "I32" THEN DataWrite(x, r.val.v, bytes) ELSE x)

RECURSIVE InstData(_, _, _)
InstData(m, entries, k) ==
    IF m.status # "ok" \/ k > Len(entries) THEN m
    ELSE InstData(InitData(EvalExpr(m, entries[k].kind[1]), entries[k].kind[2]),
                  entries, k + 1)

InstExports(m, entries) ==
    LET names == {e.name : e \in Range(entries)}
        latest(n) == entries[CHOOSE k \in 1..Len(entries) :
                         /\ entries[k].name = n
                         /\ \A j \in (k + 1)..Len(entries) : entries[j].name # n]
    IN [m EXCEPT !.exports = [n \in names \cup DOMAIN @ |->
                                 IF n \in names THEN [kind |-> latest(n).kind, index |-> latest(n).index]
                                 ELSE @[n]]]

stack_check(m) == IF m.slen <= m.sp THEN [m EXCEPT !.slen = m.sp + STACK_SLAB] ELSE m

(* The stages of instance over ms = [m, sec]: the machine and the section  *)
(* taken out of it.                                                        *)
Stage(ms, F(_, _)) == [ms EXCEPT !.m = F(@, ms.sec)]

InstDone(ms) ==
    IF ms.m.status # "ok" THEN [m |-> ms.m, sec |-> EmptySection]
    ELSE [m |-> [ms.m EXCEPT !.taken = FALSE, !.mode = "idle", !.instances = @ + 1],
          sec |-> ms.sec]

(* instance with the local functions registered before the imports. *)
instanceLocalsFirst(m0, sec, io) ==
    InstDone(
     Stage(
      Stage(
       Stage(
        Stage(
         Stage(
          Stage(
           Stage(
            InstFuncs([m |-> stack_check([m0 EXCEPT !.pc = 0, !.sp = 0, !.fp = 0, !.taken = TRUE]),
                       sec |-> sec],
                      sec.func, 1),
            LAMBDA m, sc : InstImports(m, sc.import, io, 1)),
           LAMBDA m, sc : InstGlobals(m, sc.global, 1)),
          LAMBDA m, sc : InstTables(m, sc.table, 1)),
         LAMBDA m, sc : InstElements(m, sc.element, 1)),
        LAMBDA m, sc : InstMemory(m, sc.memory, 1)),
       LAMBDA m, sc : InstData(m, sc.data, 1)),
      LAMBDA m, sc : Then(m, LAMBDA x : InstExports(x, sc.export))))

instance(m0, sec, io) ==
    InstDone(
     Stage(
      Stage(
       Stage(
        Stage(
         Stage(
          Stage(
           InstFuncs(
            Stage([m |-> stack_check([m0 EXCEPT !.pc = 0, !.sp = 0, !.fp = 0, !.taken = TRUE]),
                   sec |-> sec],
                  LAMBDA m, sc : InstImports(m, sc.import, io, 1)),
            sec.func, 1),
           LAMBDA m, sc : InstGlobals(m, sc.global, 1)),
          LAMBDA m, sc : InstTables(m, sc.table, 1)),
         LAMBDA m, sc : InstElements(m, sc.element, 1)),
        LAMBDA m, sc : InstMemory(m, sc.memory, 1)),
       LAMBDA m, sc : InstData(m, sc.data, 1)),
      LAMBDA m, sc : Then(m, LAMBDA x : InstExports(x, sc.export))))

(***************************************************************************)
(* WasmModule::start.                                                      *)
(***************************************************************************)
start(m) ==
    IF "_start" \notin DOMAIN m.exports THEN [m EXCEPT !.result = "Err"]
    ELSE IF m.exports["_start"].kind # "Func" THEN [m EXCEPT !.result = "Err"]
    ELSE call([m EXCEPT !.sp = 0, !.fp = 0, !.pc = 0], m.exports["_start"].index, "start")

(***************************************************************************)
(* The byte cursor (ByteParse / ByteRead) of a module or section: raw,     *)
(* offset and length, with the magic number and version a WasmModule       *)
(* keeps.  res is what the latest operation on the cursor returned: status *)
(* Ok or Err (an anyhow error, why being its message) or panic; bytes is   *)
(* the byte vector returned, bits the integer returned, as the set of the  *)
(* positions of its one bits (two's complement of the result's width), and *)
(* size the length the LEB decoder returned.                               *)
(***************************************************************************)
MAX_NUMBER_OF_BYTE_U32 == 5
MAX_NUMBER_OF_BYTE_U64 == 10
MAGIC_NUMBER == <<0, 97, 115, 109>>
VERSION == <<1, 0, 0, 0>>

NoRes == [op |-> "none", status |-> "none", why |-> "", bytes |-> <<>>, bits |-> {}, size |-> 0]

Res(op, status, why, bytes, bits, size) ==
    [op |-> op, status |-> status, why |-> why, bytes |-> bytes, bits |-> bits, size |-> size]

NewReader(raw, length) ==
    [raw |-> raw, offset |-> 0, length |-> length, magic_number |-> <<>>, version |-> 0,
     res |-> NoRes]

is_eof(c) == c.offset > c.length

skip(c, num) == [c EXCEPT !.offset = @ + num]

peek_bytes(c, num) ==
    IF is_eof(c) \/ c.offset + num > c.length
    THEN Res("peek_bytes", "Err", "Unexpect token <EOF>", <<>>, {}, 0)
    ELSE IF c.offset + num > Len(c.raw)
         THEN Res("peek_bytes", "Err", "overflow", <<>>, {}, 0)
         ELSE Res("peek_bytes", "Ok", "", SubSeq(c.raw, c.offset + 1, c.offset + num), {}, 0)

(* A read: the peek, and on success the cursor skips the bytes. *)
read_bytes(c, num, op) ==
    IF peek_bytes(c, num).status = "Ok"
    THEN [skip(c, num) EXCEPT !.res = [peek_bytes(c, num) EXCEPT !.op = op]]
    ELSE [c EXCEPT !.res = [peek_bytes(c, num) EXCEPT !.op = op]]

read_byte(c) == read_bytes(c, 1, "read_byte")

(***************************************************************************)
(* leb.rs.  Integers of width w are sets of bit positions below w.         *)
(***************************************************************************)
Bit(b, j) == (b \div (2 ^ j)) % 2 = 1

(* buf[i] & 0b0111_1111 *)
Low7(b) == {j \in 0..6 : Bit(b, j)}

(* (buf[i] & 0b0011_1111) | 0b1100_0000 *)
Low6Signed(b) == {j \in 0..5 : Bit(b, j)} \cup {6, 7}

(* x << n at width w; n >= w panics under overflow_checks and is taken     *)
(* modulo w without.                                                       *)
ShlOverflows(n, w) == n >= w

Shl(x, n, w) == {j + (n % w) : j \in x} \cap (0..(w - 1))

RECURSIVE leb_encode_len_from(_, _)
leb_encode_len_from(buf, count) ==
    IF count < Len(buf) /\ At(buf, count) >= 128 THEN leb_encode_len_from(buf, count + 1)
    ELSE count + 1

leb_encode_len(buf) == leb_encode_len_from(buf, 0)

LebPanic(op, why) == Res(op, "panic", why, <<>>, {}, 0)

(* The loop of the unsigned decoders and of the non-negative branch of the *)
(* signed ones, from byte i on with r accumulated.                         *)
RECURSIVE AccumulateLeb(_, _, _, _, _, _)
AccumulateLeb(op, buf, length, i, r, w) ==
    IF i = length THEN Res(op, "Ok", "", <<>>, r, length)
    ELSE IF overflow_checks /\ ShlOverflows(7 * i, w) THEN LebPanic(op, "overflow")
    ELSE AccumulateLeb(op, buf, length, i + 1, r \cup Shl(Low7(At(buf, i)), 7 * i, w), w)

(* The loop of the negative branch, from the last byte down to byte i. *)
RECURSIVE AccumulateNegative(_, _, _, _, _, _)
AccumulateNegative(op, buf, length, i, r, w) ==
    IF i < 0 THEN Res(op, "Ok", "", <<>>, r, length)
    ELSE IF i = length - 1
         THEN AccumulateNegative(op, buf, length, i - 1,
                                 (Shl(r, 6, w) \cup Low6Signed(At(buf, i))) \cap (0..(w - 1)), w)
         ELSE AccumulateNegative(op, buf, length, i - 1,
                                 Shl(r, 7, w) \cup Low7(At(buf, i)), w)

decode_leb_unsigned(op, buf, w) ==
    IF leb_encode_len(buf) > Len(buf) THEN LebPanic(op, "slice")
    ELSE AccumulateLeb(op, buf, leb_encode_len(buf), 0, {}, w)

decode_leb_signed(op, buf, w) ==
    IF leb_encode_len(buf) > Len(buf) THEN LebPanic(op, "slice")
    ELSE IF Bit(At(buf, leb_encode_len(buf) - 1), 6)
         THEN AccumulateNegative(op, buf, leb_encode_len(buf), leb_encode_len(buf) - 1,
                                 0..(w - 1), w)
         ELSE AccumulateLeb(op, buf, leb_encode_len(buf), 0, {}, w)

decode_leb_u32(buf) == decode_leb_unsigned("decode_leb_u32", buf, 32)
decode_leb_u64(buf) == decode_leb_unsigned("decode_leb_u64", buf, 64)
decode_leb_i32(buf) == decode_leb_signed("decode_leb_i32", buf, 32)
decode_leb_i64(buf) == decode_leb_signed("decode_leb_i64", buf, 64)

LebKinds == {"u32", "u64", "i32", "i64"}

decode_leb(kind, buf) ==
    CASE kind = "u32" -> decode_leb_u32(buf)
      [] kind = "u64" -> decode_leb_u64(buf)
      [] kind = "i32" -> decode_leb_i32(buf)
      [] OTHER -> decode_leb_i64(buf)

MaxBytesOf(kind) ==
    IF kind \in {"u32", "i32"} THEN MAX_NUMBER_OF_BYTE_U32 ELSE MAX_NUMBER_OF_BYTE_U64

(* read_leb_*: the buffer peeked is the remaining bytes, at most the       *)
(* maximal encoding; length - offset panics below zero under               *)
(* overflow_checks and wraps to a large number without.                    *)
ReadLebBuffer(c, kind) ==
    IF c.offset > c.length
    THEN (IF overflow_checks THEN LebPanic("peek_bytes", "overflow")
          ELSE peek_bytes(c, MaxBytesOf(kind)))
    ELSE peek_bytes(c, Min(c.length - c.offset, MaxBytesOf(kind)))

ReadLebDecoded(c, op, kind, peeked) ==
    IF peeked.status # "Ok" THEN [c EXCEPT !.res = [peeked EXCEPT !.op = op]]
    ELSE IF decode_leb(kind, peeked.bytes).status # "Ok"
         THEN [c EXCEPT !.res = [decode_leb(kind, peeked.bytes) EXCEPT !.op = op]]
         ELSE [skip(c, decode_leb(kind, peeked.bytes).size)
                  EXCEPT !.res = [decode_leb(kind, peeked.bytes) EXCEPT !.op = op]]

read_leb(c, kind) ==
    ReadLebDecoded(c, IF kind = "u32" THEN "read_leb_u32"
                      ELSE IF kind = "u64" THEN "read_leb_u64"
                      ELSE IF kind = "i32" THEN "read_leb_i32" ELSE "read_leb_i64",
                   kind, ReadLebBuffer(c, kind))

(***************************************************************************)
(* parse_magic and parse_version of WasmModule::decode.                    *)
(***************************************************************************)
parse_magic(c) ==
    IF peek_bytes(c, 4).status # "Ok" THEN [c EXCEPT !.res = [peek_bytes(c, 4) EXCEPT !.op = "decode"]]
    ELSE IF peek_bytes(c, 4).bytes # MAGIC_NUMBER
         THEN [c EXCEPT !.res = Res("decode", "Err", "Magic header not detected", <<>>, {}, 0)]
         ELSE [skip(c, 4) EXCEPT !.magic_number = peek_bytes(c, 4).bytes,
                                 !.res = Res("decode", "Ok", "", <<>>, {}, 0)]

parse_version(c) ==
    IF peek_bytes(c, 4).status # "Ok" THEN [c EXCEPT !.res = [peek_bytes(c, 4) EXCEPT !.op = "decode"]]
    ELSE IF peek_bytes(c, 4).bytes # VERSION
         THEN [c EXCEPT !.res = Res("decode", "Err", "Unknown binary version", <<>>, {}, 0)]
         ELSE [skip(c, 4) EXCEPT !.version = FromLeBytes32(peek_bytes(c, 4).bytes),
                                 !.res = Res("decode", "Ok", "", <<>>, {}, 0)]

ParseHeader(c) ==
    IF parse_magic(c).res.status # "Ok" THEN parse_magic(c) ELSE parse_version(parse_magic(c))

(***************************************************************************)
(* Input images.                                                           *)
(***************************************************************************)
NoCode == [count |-> 0, stream |-> <<>>]

CodeOnly(stream, count) ==
    [types |-> <<[param_count |-> 0, result_count |-> 0]>>,
     import |-> <<>>,
     func |-> [k \in 1..count |-> 0],
     table |-> <<>>, memory |-> <<>>, export |-> <<>>,
     global |-> [count |-> 0, stream |-> <<>>, mut |-> <<>>],
     element |-> [count |-> 0, stream |-> <<>>, funcs |-> <<>>],
     code |-> [count |-> count, stream |-> stream,
               locales |-> [k \in 1..count |-> <<>>]],
     data |-> [count |-> 0, stream |-> <<>>, bytes |-> <<>>]]

Alphabet == {TBlock, TLoop, TIf, TElse, TEnd, TNop} \cup {TBr(l) : l \in 0..MaxLabel}

Streams(n) == SeqsUpTo(Alphabet, n) \ {<<>>}

(* Instructions with immediates, as the decoder stores them.               *)
OpI32Const(v) == [op |-> "I32Const", v |-> v]
OpI64Const(v) == [op |-> "I64Const", v |-> v]
OpF32Const(v) == [op |-> "F32Const", v |-> v]
OpF64Const(v) == [op |-> "F64Const", v |-> v]
OpCall(x) == [op |-> "Call", x |-> x]
OpCallIndirect(x, y) == [op |-> "CallIndirect", x |-> x, y |-> y]
OpLocalGet(x) == [op |-> "LocalGet", x |-> x]
OpLocalSet(x) == [op |-> "LocalSet", x |-> x]
OpLocalTee(x) == [op |-> "LocalTee", x |-> x]
OpGlobalGet(x) == [op |-> "GlobalGet", x |-> x]
OpGlobalSet(x) == [op |-> "GlobalSet", x |-> x]
OpMem(name, offset) == [op |-> name, offset |-> offset]
OpPlain(name) == [op |-> name]

RECURSIVE Flatten(_)
Flatten(ss) == IF ss = <<>> THEN <<>> ELSE Head(ss) \o Flatten(Tail(ss))

FuncType(p, r) == [param_count |-> p, result_count |-> r]

(* An image with the given function types and bodies, the first body being *)
(* exported as _start; imports come first in the function index space.     *)
Image(types, imports, tys, bodies) ==
    [CodeOnly(Flatten(bodies), Len(bodies)) EXCEPT
        !.types = types, !.import = imports, !.func = tys,
        !.export = <<[name |-> "_start", kind |-> "Func", index |-> Len(imports)]>>]

HostImport(ty) == [mod_name |-> "env", field_name |-> "h", kind |-> "Func", ty |-> ty]

GlobalImport(mutability) ==
    [mod_name |-> "env", field_name |-> "g", kind |-> "Global", mutability |-> mutability]

MemoryImport(minimum, maximum) ==
    [mod_name |-> "env", field_name |-> "m", kind |-> "Memory",
     minimum |-> minimum, maximum |-> maximum]

TableImport == [mod_name |-> "env", field_name |-> "t", kind |-> "Table"]

WithGlobals(img, muts, exprs) ==
    [img EXCEPT !.global = [count |-> Len(exprs), stream |-> Flatten(exprs), mut |-> muts]]

WithTable(img, minimum, offset, funcs) ==
    [img EXCEPT !.table = <<[minimum |-> minimum, maximum |-> minimum]>>,
                !.element = [count |-> 1, stream |-> <<OpI32Const(offset), TEnd>>,
                             funcs |-> <<funcs>>]]

(* A table of minimum slots and one active segment per <<offset, funcs>>.  *)
WithSegments(img, minimum, segs) ==
    [img EXCEPT !.table = <<[minimum |-> minimum, maximum |-> minimum]>>,
                !.element = [count |-> Len(segs),
                             stream |-> Flatten([k \in 1..Len(segs) |->
                                                    <<OpI32Const(segs[k][1]), TEnd>>]),
                             funcs |-> [k \in 1..Len(segs) |-> segs[k][2]]]]

WithMemory(img, minimum, maximum) ==
    [img EXCEPT !.memory = <<[minimum |-> minimum, maximum |-> maximum]>>]

WithData(img, offset, bytes) ==
    [img EXCEPT !.data = [count |-> 1, stream |-> <<OpI32Const(offset), TEnd>>,
                          bytes |-> <<bytes>>]]

(* One active data segment per <<offset, bytes>>. *)
WithDataSegments(img, segs) ==
    [img EXCEPT !.data = [count |-> Len(segs),
                          stream |-> Flatten([k \in 1..Len(segs) |->
                                                 <<OpI32Const(segs[k][1]), TEnd>>]),
                          bytes |-> [k \in 1..Len(segs) |-> segs[k][2]]]]

Main(body) == Image(<<FuncType(0, 0)>>, <<>>, <<0>>, <<body>>)

(* _start calls an adder that leaves a value below its result, a host      *)
(* function, a function without results that leaves two values and a       *)
(* function with one result that leaves one value below it.                *)
CallImage(a) ==
    Image(<<FuncType(0, 0), FuncType(2, 1), FuncType(1, 1), FuncType(0, 1)>>,
          <<HostImport(2)>>, <<0, 1, 0, 3>>,
          << <<OpI32Const(a), OpI32Const(2), OpCall(2), OpCall(0), OpPlain("Drop"),
               OpCall(3), OpCall(4), OpPlain("Drop"), TEnd>>,
             <<OpI32Const(9), OpLocalGet(0), OpLocalGet(1), OpPlain("I32Add"), TEnd>>,
             <<OpI32Const(7), OpI32Const(8), TEnd>>,
             <<OpI32Const(1), OpI32Const(2), TEnd>> >>)

(* if c then 10 else 20 *)
IfImage(c) ==
    Main(<<OpI32Const(c), TIf, OpI32Const(10), TElse, OpI32Const(20), TEnd,
           OpPlain("Drop"), TEnd>>)

(* { Block, Loop, Block } with br l in the innermost block. *)
NestImage(l) ==
    Main(<<TBlock, TLoop, TBlock, TBr(l), TEnd, OpI32Const(1), OpPlain("Drop"), TEnd,
           OpI32Const(2), OpPlain("Drop"), TEnd, TEnd>>)

(* br l in the then-arm (arm = 1) or the else-arm (arm = 0) of an If       *)
(* inside a Block.                                                         *)
ArmImage(arm, l) ==
    Main(<<TBlock, OpI32Const(arm), TIf>>
         \o (IF arm = 1 THEN <<TBr(l), TElse>> ELSE <<TElse, TBr(l)>>)
         \o <<TEnd, OpI32Const(7), OpPlain("Drop"), TEnd, TEnd>>)

(* A Const and a Var global; _start sets global x. *)
GlobalImage(x) ==
    WithGlobals(Main(<<OpI32Const(9), OpGlobalSet(x), OpGlobalGet(x), OpPlain("Drop"), TEnd>>),
                <<FALSE, TRUE>>,
                << <<OpI32Const(5), TEnd>>, <<OpI32Const(6), TEnd>> >>)

(* A table of two slots, the first holding function 1 of type 1; _start    *)
(* calls slot i expecting type ty.                                         *)
IndirectImage(i, ty) ==
    WithTable(Image(<<FuncType(0, 0), FuncType(0, 1), FuncType(1, 0)>>, <<>>, <<0, 1>>,
                    << <<OpI32Const(3), OpI32Const(i), OpCallIndirect(ty, 0), TEnd>>,
                       <<OpI32Const(4), TEnd>> >>),
              2, 0, <<1>>)

DivImage(const, a, b, div) ==
    Main(<<[op |-> const, v |-> a], [op |-> const, v |-> b], OpPlain(div),
           OpPlain("Drop"), TEnd>>)

(* store v at address a, then load from a. *)
MemImage(const, v, st, ld, a, offset) ==
    WithMemory(Main(<<OpI32Const(a), [op |-> const, v |-> v], OpMem(st, offset),
                      OpI32Const(a), OpMem(ld, offset), OpPlain("Drop"), TEnd>>), 1, 1)

(* A function and a global are imported; _start calls the function and    *)
(* reads the global.                                                       *)
ImportImage(mutability) ==
    [Image(<<FuncType(0, 0)>>, <<HostImport(0), GlobalImport(mutability)>>, <<0>>,
           << <<OpCall(0), OpGlobalGet(0), OpPlain("Drop"), TEnd>> >>)
     EXCEPT !.export = <<[name |-> "_start", kind |-> "Func", index |-> 1]>>]

(* A table, a memory, a function and a global are imported in this order; *)
(* _start, the function after the imported one, calls it.                  *)
MixedImage(minimum, maximum) ==
    [Image(<<FuncType(0, 0)>>,
           <<TableImport, MemoryImport(minimum, maximum), HostImport(0), GlobalImport(FALSE)>>,
           <<0>>, << <<OpCall(0), TEnd>> >>)
     EXCEPT !.export = <<[name |-> "_start", kind |-> "Func", index |-> 1]>>]

ImportLimits == {<<0, 1>>, <<1, 1>>, <<1, 2>>}

(* A table of three slots filled by the element segments segs; _start      *)
(* calls slot 2 expecting type 0.                                          *)
SegmentImage(segs) ==
    WithSegments(Image(<<FuncType(0, 0)>>, <<>>, <<0, 0>>,
                       << <<OpI32Const(2), OpCallIndirect(0, 0), TEnd>>, <<TEnd>> >>),
                 3, segs)

(* _start calls a function of type (i32, i32) -> i32 with an i32 and an   *)
(* i64 local, which reads its locals and parameters, copies parameter 0    *)
(* into both locals and returns parameter 1.                               *)
LocalOpsImage(a, b) ==
    [Image(<<FuncType(0, 0), FuncType(2, 1)>>, <<>>, <<0, 1>>,
           << <<OpI32Const(a), OpI32Const(b), OpCall(1), OpPlain("Drop"), TEnd>>,
              <<OpLocalGet(2), OpPlain("Drop"), OpLocalGet(3), OpPlain("Drop"),
                OpLocalGet(0), OpLocalTee(2), OpLocalSet(3), OpLocalGet(1), TEnd>> >>)
     EXCEPT !.code.locales = << <<>>, << <<1, "I32">>, <<1, "I64">> >> >>]

(* _start is a constant and a branch whose label denotes the body itself,  *)
(* in the first function (first = TRUE) or in the second one.              *)
BodyBrImage(first) ==
    IF first THEN Main(<<OpI32Const(1), TBr(0), TEnd>>)
    ELSE Image(<<FuncType(0, 0)>>, <<>>, <<0, 0>>,
               << <<OpCall(1), TEnd>>, <<OpI32Const(1), TBr(0), TEnd>> >>)

(* _start leaves a block by br 0 with a value pushed inside it. *)
BrKeepImage ==
    Main(<<TBlock, OpI32Const(5), TBr(0), TEnd, OpPlain("Drop"), TEnd>>)

(* _start declares n locals of type i32. *)
LocalsImage(n) ==
    [Main(<<TEnd>>) EXCEPT !.code.locales = << << <<n, "I32">> >> >>]

(* A global is imported; a Var, a Const initialised from the imported one  *)
(* and an i64 Var are declared; _start reads the last one.                 *)
InitImage ==
    [WithGlobals(Image(<<FuncType(0, 0)>>, <<GlobalImport(FALSE)>>, <<0>>,
                       << <<OpGlobalGet(3), OpPlain("Drop"), TEnd>> >>),
                 <<TRUE, FALSE, TRUE>>,
                 << <<OpI32Const(5), TEnd>>, <<OpGlobalGet(0), TEnd>>, <<OpI64Const(6), TEnd>> >>)
     EXCEPT !.export = <<[name |-> "_start", kind |-> "Func", index |-> 0]>>]

(* A one-page memory with two overlapping data segments. *)
OverlapImage ==
    WithDataSegments(WithMemory(Main(<<TEnd>>), 1, 1),
                     << <<0, <<1, 2>> >>, <<1, <<3>> >> >>)

SegmentLists ==
    {<< <<0, <<1>> >> >>,
     << <<0, <<1, 1>> >>, <<1, <<0, 1>> >> >>,
     << <<1, <<1, 1>> >>, <<0, <<0, 1>> >> >>,
     << <<2, <<1>> >>, <<2, <<0>> >> >>,
     << <<3, <<>> >> >>,
     << <<2, <<1, 1>> >> >>}

(* _start is i32.const 41; i32.const 1; i32.add; drop; end *)
S2Image ==
    Main(<<OpI32Const(41), OpI32Const(1), OpPlain("I32Add"), OpPlain("Drop"), TEnd>>)

(* _start is (loop (br 0)) *)
LoopImage == Main(<<TLoop, TBr(0), TEnd, TEnd>>)

(* _start calls itself; with locals = 1 every activation has one local.   *)
RecImage(locals) ==
    [Main(<<OpCall(0), TEnd>>)
     EXCEPT !.code.locales = << IF locals = 0 THEN <<>> ELSE << <<locals, "I32">> >> >>]

(* _start calls a function of type () -> (i32, i32) that returns a, b    *)
(* above a value it leaves behind.                                         *)
PairImage(a, b) ==
    Image(<<FuncType(0, 0), FuncType(0, 2)>>, <<>>, <<0, 1>>,
          << <<OpCall(1), OpPlain("Drop"), OpPlain("Drop"), TEnd>>,
             <<OpI32Const(5), OpI32Const(a), OpI32Const(b), TEnd>> >>)

(* select between 10 and 20 on condition c. *)
SelectImage(c) ==
    Main(<<OpI32Const(10), OpI32Const(20), OpI32Const(c), OpPlain("Select"),
           OpPlain("Drop"), TEnd>>)

(* i64.extend_i32_u of v. *)
ExtendImage(v) ==
    Main(<<OpI32Const(v), OpPlain("I64ExtendsI32u"), OpPlain("Drop"), TEnd>>)

ExtendVals == {-1, -2, 0, 1, INT32_MIN, INT32_MAX}

(* br_if 0 on condition c inside a Block. *)
BrIfImage(c) ==
    Main(<<TBlock, OpI32Const(c), TBrIf(0), OpI32Const(7), OpPlain("Drop"), TEnd, TEnd>>)

(* br_table 0 1 with default 2 on index i inside three Blocks. *)
BrTableImage(i) ==
    Main(<<TBlock, TBlock, TBlock, OpI32Const(i), TBrTable(<<0, 1>>, 2),
           OpI32Const(6), OpPlain("Drop"), TEnd,
           OpI32Const(7), OpPlain("Drop"), TEnd,
           OpI32Const(8), OpPlain("Drop"), TEnd, TEnd>>)

TableIndexes == {-1, 0, 1, 2, 3, INT32_MIN, INT32_MAX}

(* A memory of the given limits and one active data segment of bytes at o. *)
LimitsImage(minimum, maximum, o, bytes) ==
    WithData(WithMemory(Main(<<TEnd>>), minimum, maximum), o, bytes)

Limits == {<<0, 1>>, <<1, 1>>, <<1, 2>>, <<2, 1>>, <<1, 0>>}
DataOffsets == {0, PAGE_SIZE - 1, PAGE_SIZE, 2 * PAGE_SIZE - 1, -1}
DataBytes == {<<>>, <<1, 2>>}

CondVals == {-1, 0, 1, 2}
UnsignedPairs == {<<-1, 1>>, <<1, -1>>, <<-2, 2>>, <<2, 2>>, <<1, 2>>, <<-1, -2>>}
UnsignedOps == {"Ltu", "Gtu", "Leu", "Geu", "DivU"}
SignedOps == {"Lts", "Gts", "Les", "Ges"}
Widths == {"I32", "I64"}
DivPairs == {<<7, 2>>, <<-7, 2>>, <<7, 0>>, <<0, 0>>, <<INT32_MIN, -1>>, <<INT32_MIN, 1>>}
StoreVals == {0, 1, 127, 128, 255, 256, 300, -1, -128, INT32_MAX, INT32_MIN}
(* Addresses whose 4-byte access ends beyond, or starts at, the end of a   *)
(* one-page memory.                                                        *)
EdgeAddresses == {PAGE_SIZE - 2, PAGE_SIZE}
StoreLoad == {<<"I32Const", "I32Store", "I32Load">>, <<"I64Const", "I64Store", "I64Load">>,
              <<"F32Const", "F32Store", "F32Load">>, <<"F64Const", "F64Store", "F64Load">>,
              <<"I32Const", "I32Store8", "I32Load8u">>, <<"I32Const", "I32Store8", "I32Load8s">>,
              <<"I32Const", "I32Store", "I64Load32s">>}

Images ==
    {CallImage(a) : a \in {1, 5}}
    \cup {IfImage(c) : c \in CondVals}
    \cup {NestImage(l) : l \in 0..2}
    \cup {ArmImage(arm, l) : arm \in 0..1, l \in 0..1}
    \cup {GlobalImage(x) : x \in 0..1}
    \cup {IndirectImage(i, ty) : i \in {-1, 0, 1, 2}, ty \in {0, 1, 2}}
    \cup {DivImage(c, p[1], p[2], d) : c \in {"I32Const"}, p \in DivPairs,
                                       d \in {"I32DivS", "I32DivU"}}
    \cup {DivImage(c, p[1], p[2], d) : c \in {"I64Const"}, p \in DivPairs,
                                       d \in {"I64DivS", "I64DivU"}}
    \cup {MemImage(k[1], v, k[2], k[3], a, o) : k \in StoreLoad, v \in StoreVals,
                                                a \in {0, 4}, o \in {0, 3}}
    \cup {ImportImage(mu) : mu \in BOOLEAN}
    \cup {LimitsImage(l[1], l[2], o, bs) : l \in Limits, o \in DataOffsets, bs \in DataBytes}
    \cup {S2Image, LoopImage}
    \cup {RecImage(n) : n \in 0..1}
    \cup {PairImage(11, 22)}
    \cup {BrIfImage(c) : c \in CondVals}
    \cup {ExtendImage(v) : v \in ExtendVals}
    \cup {DivImage(w \o "Const", p[1], p[2], w \o o) :
              w \in Widths, p \in UnsignedPairs, o \in UnsignedOps \cup SignedOps}
    \cup {SelectImage(c) : c \in CondVals}
    \cup {BrTableImage(i) : i \in TableIndexes}
    \cup {MixedImage(l[1], l[2]) : l \in ImportLimits}
    \cup {SegmentImage(segs) : segs \in SegmentLists}
    \cup {OverlapImage, InitImage}
    \cup {LocalsImage(n) : n \in {2, STACK_SLAB - 1, STACK_SLAB}}
    \cup {LocalOpsImage(3, 4)}
    \cup {BodyBrImage(first) : first \in BOOLEAN}
    \cup {BrKeepImage}
    \cup {MemImage("I32Const", 258, st, "I32Load", a, 0) :
              st \in {"I32Store", "I32Store8"}, a \in EdgeAddresses}

(* The import object handed to instance: every import of the image bound.  *)
NoImportObject == [some |-> FALSE]

(* An import object binding every import of the image to value(ipt).      *)
ImportObject(img, value(_)) ==
    LET ipts == {img.import[i] : i \in 1..Len(img.import)}
        fields(mn) == {ipt \in ipts : ipt.mod_name = mn}
    IN [some |-> TRUE,
        map |-> [mn \in {ipt.mod_name : ipt \in ipts} |->
                   [fn \in {ipt.field_name : ipt \in fields(mn)} |->
                       value(CHOOSE ipt \in fields(mn) : ipt.field_name = fn)]]]

HostFunc(f) == [kind |-> "Func", f |-> f]
HostValue(v) == [kind |-> "Value", val |-> v]

(* The value of the declared kind for an import, callbacks being named cb. *)
Matching(ipt, cb) == IF ipt.kind = "Global" THEN HostValue(I32(3)) ELSE HostFunc(cb)

(* The value of the other kind. *)
Mismatching(ipt) == IF ipt.kind = "Global" THEN HostFunc("f1") ELSE HostValue(I32(3))

WithoutField(io, ipt) ==
    [io EXCEPT !.map[ipt.mod_name] =
        [fn \in DOMAIN @ \ {ipt.field_name} |-> @[fn]]]

WithoutModule(io, ipt) ==
    [io EXCEPT !.map = [mn \in DOMAIN @ \ {ipt.mod_name} |-> @[mn]]]

WithKind(io, ipt, v) == [io EXCEPT !.map[ipt.mod_name][ipt.field_name] = v]

Complete(img, cb) == ImportObject(img, LAMBDA ipt : Matching(ipt, cb))

(***************************************************************************)
(* Byte images.  LEB128 encodes an integer in groups of 7 bits, the lowest *)
(* first, every byte but the last carrying the continuation bit; the       *)
(* canonical encoding is the shortest one.                                 *)
(***************************************************************************)
ValidHeader == MAGIC_NUMBER \o VERSION

Prefixes(s) == {SubSeq(s, 1, n) : n \in 0..Len(s)}

HeaderBytes == {0, 1, 2, 97}

HeaderRaws ==
    Prefixes(ValidHeader)
    \cup {[ValidHeader EXCEPT ![i] = b] : i \in 1..Len(ValidHeader), b \in HeaderBytes}

(* The two's complement bits at width w of an integer of 32 bits. *)
BitsOf(n, w) == {j \in 0..(w - 1) : IF j <= 30 THEN (n \div (2 ^ j)) % 2 = 1 ELSE n < 0}

MaxOf(S) == CHOOSE m \in S : \A y \in S : y <= m

(* Group i of x, the bits at and above w being sign. *)
GroupOf(x, i, w, sign) ==
    LET on(j) == IF 7 * i + j < w THEN 7 * i + j \in x ELSE sign
        v(j) == IF on(j) THEN 2 ^ j ELSE 0
    IN v(0) + v(1) + v(2) + v(3) + v(4) + v(5) + v(6)

EncodeGroups(x, n, w, sign) ==
    [k \in 1..n |-> GroupOf(x, k - 1, w, sign) + (IF k < n THEN 128 ELSE 0)]

EncodeUnsigned(x, w) ==
    EncodeGroups(x, IF x = {} THEN 1 ELSE (MaxOf(x) \div 7) + 1, w, FALSE)

EncodeSigned(x, w) ==
    LET sign == (w - 1) \in x
        enough(n) == \A q \in (7 * n - 1)..(w - 1) : (q \in x) = sign
    IN EncodeGroups(x, CHOOSE n \in 1..((w \div 7) + 1) :
                           enough(n) /\ \A k \in 1..(n - 1) : ~enough(k),
                    w, sign)

WidthOf(kind) == IF kind \in {"u32", "i32"} THEN 32 ELSE 64

Encode(kind, x) ==
    IF kind \in {"u32", "u64"} THEN EncodeUnsigned(x, WidthOf(kind))
    ELSE EncodeSigned(x, WidthOf(kind))

Naturals32 == {0, 1, 12, 63, 64, 127, 128, 624485, INT32_MAX}
Negatives32 == {-1, -64, -65, -128, -624485, INT32_MIN}

(* The integers of a decoder's width that are encoded: small ones, the     *)
(* example of the documentation, and the extremes of the width.            *)
ValuesOf(kind) ==
    IF kind \in {"u32", "u64"}
    THEN {BitsOf(n, WidthOf(kind)) : n \in Naturals32}
         \cup {0..(WidthOf(kind) - 1), {WidthOf(kind) - 1}}
    ELSE {BitsOf(n, WidthOf(kind)) : n \in Naturals32 \cup Negatives32}
         \cup {0..(WidthOf(kind) - 2), {WidthOf(kind) - 1}}

(* Padded, overlong and unterminated sequences. *)
OtherLebRaws ==
    {<<>>, <<140, 128, 128, 128, 0>>, <<255, 255, 255, 255, 127>>,
     <<128, 128, 128, 128, 128, 1>>, <<128>>, <<255, 255>>, <<229, 142, 38, 1>>}

LebRaws ==
    UNION {{Encode(kind, x) : x \in ValuesOf(kind)} : kind \in LebKinds} \cup OtherLebRaws

(* The import objects handed to instance: complete ones with two sets of   *)
(* callbacks, and for each import one lacking its field, one lacking its   *)
(* module and one holding a value of the other kind; none at all.          *)
ImportObjects(img) ==
    IF Len(img.import) = 0 THEN {Complete(img, "f1")}
    ELSE {Complete(img, "f1"), Complete(img, "f2"), NoImportObject}
         \cup {WithoutField(Complete(img, "f1"), img.import[i]) : i \in 1..Len(img.import)}
         \cup {WithoutModule(Complete(img, "f1"), img.import[i]) : i \in 1..Len(img.import)}
         \cup {WithKind(Complete(img, "f1"), img.import[i], Mismatching(img.import[i])) :
                   i \in 1..Len(img.import)}

(* What a host function may return. *)
MaxHostRes == 2
HostResults == SeqsUpTo({I32(7)}, MaxHostRes)

MaxInstances == 2

(***************************************************************************)
(* Actions.                                                                *)
(***************************************************************************)
(* The module after decode returned r. *)
SetDecoded(r) ==
    /\ dstatus' = r.status
    /\ ops' = r.ops
    /\ section' = r.section

(* The module after instance returned r. *)
SetInstance(r) ==
    /\ vm' = r.m
    /\ section' = r.sec

(* decode: the header is read from the byte cursor of the module, the     *)
(* sections that follow it are the image's.                                *)
Decode ==
    /\ dstatus = "new"
    /\ reader.res.op = "none"
    /\ reader.length = Len(reader.raw)
    /\ reader' = ParseHeader(reader)
    /\ IF ParseHeader(reader).res.status = "Ok"
       THEN SetDecoded(DecodeModule(module))
       ELSE dstatus' = "err" /\ UNCHANGED <<ops, section>>
    /\ UNCHANGED <<module, vm, overflow_checks>>

InstanceWith(io) ==
    /\ dstatus = "ok"
    /\ vm.status = "ok"
    /\ vm.mode = "idle"
    /\ vm.instances < MaxInstances
    /\ SetInstance(instance(vm, section, io))
    /\ UNCHANGED <<module, dstatus, ops, overflow_checks, reader>>

Instance == \E io \in ImportObjects(module) : InstanceWith(io)

Start ==
    /\ vm.status = "ok"
    /\ vm.mode = "idle"
    /\ vm.instances > 0
    /\ vm.result = "none"
    /\ vm' = start(vm)
    /\ UNCHANGED <<module, dstatus, ops, section, overflow_checks, reader>>

(* One iteration of the loop of run. *)
Step ==
    /\ vm.status = "ok"
    /\ vm.mode = "exec"
    /\ vm' = RunStep(vm)
    /\ UNCHANGED <<module, dstatus, ops, section, overflow_checks, reader>>

(* The host function returns. *)
HostReturn ==
    /\ vm.status = "ok"
    /\ vm.mode = "host"
    /\ \E res \in HostResults : vm' = HostEpilogue(vm, res)
    /\ UNCHANGED <<module, dstatus, ops, section, overflow_checks, reader>>

(* The callback calls back into the module it was handed; reentries       *)
(* counts these calls, of which the model follows MaxReentry.              *)
MaxReentry == 1

HostCall ==
    /\ vm.status = "ok"
    /\ vm.mode = "host"
    /\ vm.reentries < MaxReentry
    /\ \E idx \in 0..(Len(vm.func) - 1) :
          /\ At(vm.func, idx).ty < Len(Types(vm))
          /\ vm' = HostReenter(vm, idx)
    /\ UNCHANGED <<module, dstatus, ops, section, overflow_checks, reader>>

(* call has returned: the caller takes the results. *)
Return ==
    /\ vm.status = "ok"
    /\ vm.mode = "ret"
    /\ vm' = FinishCall(vm)
    /\ UNCHANGED <<module, dstatus, ops, section, overflow_checks, reader>>

InitDecode ==
    /\ module \in {CodeOnly(s, n) : s \in Streams(MaxLen), n \in 1..MaxBodies}
    /\ reader = NewReader(ValidHeader, Len(ValidHeader))
    /\ dstatus = "new"
    /\ ops = <<>>
    /\ section = EmptySection
    /\ vm = Default
    /\ overflow_checks = TRUE

NextDecode == Decode

SpecDecode == InitDecode /\ [][NextDecode]_vars

Init ==
    /\ module \in Images
    /\ reader = NewReader(ValidHeader, Len(ValidHeader))
    /\ dstatus = "new"
    /\ ops = <<>>
    /\ section = EmptySection
    /\ vm = Default
    /\ overflow_checks \in BOOLEAN

Next == Decode \/ Instance \/ Start \/ Step \/ HostCall \/ HostReturn \/ Return

Spec == Init /\ [][Next]_vars

(* run is a synchronous loop: once entered, it executes its next           *)
(* instruction, and a call that has returned hands its results to its      *)
(* caller.  Whether the embedder calls decode, instance or start, and      *)
(* whether a host function returns, is not up to the interpreter.          *)
SpecFair == Spec /\ WF_vars(Step) /\ WF_vars(Return)

(***************************************************************************)
(* The byte level: decode of images that consist of a header only, and the *)
(* reads of ByteRead and the decoders of leb.rs on a cursor.               *)
(***************************************************************************)
MaxRead == 3

PeekBytes ==
    /\ reader.res.status # "panic"
    /\ \E num \in 0..MaxRead : reader' = [reader EXCEPT !.res = peek_bytes(reader, num)]
    /\ UNCHANGED <<module, dstatus, ops, section, vm, overflow_checks>>

ReadOneByte ==
    /\ reader.res.status # "panic"
    /\ reader' = read_byte(reader)
    /\ UNCHANGED <<module, dstatus, ops, section, vm, overflow_checks>>

ReadBytes ==
    /\ reader.res.status # "panic"
    /\ \E num \in 0..MaxRead : reader' = read_bytes(reader, num, "read_bytes")
    /\ UNCHANGED <<module, dstatus, ops, section, vm, overflow_checks>>

ReadLeb ==
    /\ reader.res.status # "panic"
    /\ \E kind \in LebKinds : reader' = read_leb(reader, kind)
    /\ UNCHANGED <<module, dstatus, ops, section, vm, overflow_checks>>

(* A decoder of leb.rs applied to the whole buffer. *)
DecodeLeb ==
    /\ reader.res.status # "panic"
    /\ \E kind \in LebKinds : reader' = [reader EXCEPT !.res = decode_leb(kind, reader.raw)]
    /\ UNCHANGED <<module, dstatus, ops, section, vm, overflow_checks>>

InitBytes ==
    /\ module = CodeOnly(<<>>, 0)
    /\ reader \in {NewReader(raw, Len(raw)) : raw \in HeaderRaws \cup LebRaws}
                 \cup {NewReader(raw, Len(raw) - 1) : raw \in LebRaws \ {<<>>}}
                 \cup {NewReader(raw, Len(raw) + 1) : raw \in LebRaws}
    /\ dstatus = "new"
    /\ ops = <<>>
    /\ section = EmptySection
    /\ vm = Default
    /\ overflow_checks \in BOOLEAN

NextBytes == Decode \/ PeekBytes \/ ReadOneByte \/ ReadBytes \/ ReadLeb \/ DecodeLeb

SpecBytes == InitBytes /\ [][NextBytes]_vars

(***************************************************************************)
(* Structure of the instruction array, read off the array itself: the End  *)
(* that closes a construct, the Else of an If, the constructs around an    *)
(* index.  -1 stands for "none".                                           *)
(***************************************************************************)
Constructs == {"Block", "Loop", "If"}

RECURSIVE ScanEnd(_, _, _)
ScanEnd(o, i, depth) ==
    IF i >= Len(o) THEN -1
    ELSE IF At(o, i).op \in Constructs THEN ScanEnd(o, i + 1, depth + 1)
    ELSE IF At(o, i).op = "End"
         THEN (IF depth = 0 THEN i ELSE ScanEnd(o, i + 1, depth - 1))
         ELSE ScanEnd(o, i + 1, depth)

MatchEnd(o, i) == ScanEnd(o, i + 1, 0)

RECURSIVE ScanElse(_, _, _)
ScanElse(o, i, depth) ==
    IF i >= Len(o) THEN -1
    ELSE IF At(o, i).op \in Constructs THEN ScanElse(o, i + 1, depth + 1)
    ELSE IF At(o, i).op = "End"
         THEN (IF depth = 0 THEN -1 ELSE ScanElse(o, i + 1, depth - 1))
         ELSE IF At(o, i).op = "Else" /\ depth = 0 THEN i
         ELSE ScanElse(o, i + 1, depth)

MatchElse(o, i) == ScanElse(o, i + 1, 0)

Enclosing(o, i) ==
    {c \in 0..(i - 1) : At(o, c).op \in Constructs /\ MatchEnd(o, c) >= i}

(* The l-th construct around i, counted from the innermost. *)
EnclosingAt(o, i, l) ==
    CHOOSE c \in Enclosing(o, i) : Cardinality({d \in Enclosing(o, i) : d > c}) = l

(* Where a branch to construct c continues. *)
LabelTargets(o, c) ==
    IF At(o, c).op = "Loop" THEN {c, c + 1} ELSE {MatchEnd(o, c)}

Executing(name) == vm.status = "ok" /\ vm.mode = "exec" /\ Fetch(vm).op = name

TopIsI32 == vm.sp >= 1 /\ vm.sp <= MaxSlot /\ InStack(vm, vm.sp) /\ vm.stack[vm.sp].t = "I32"

(* start or call hands an error value to its caller. *)
Trapped(m) == m.status = "ok" /\ m.result = "Err"

(***************************************************************************)
(* C1: when call returns from a Local function, or from a Host function    *)
(* whose callback returned result_count values, pc and fp are the ones     *)
(* saved on entry, and once the Call arm has pushed the results sp is      *)
(* sp_before - param_count + result_count, whatever the callee left.       *)
(***************************************************************************)
C1_Returned(m, f) ==
    Len(m.res) = f.result_count =>
        /\ m.pc = f.pc
        /\ m.fp = f.fp
        /\ m.sp = f.sp - f.param_count

C1_Completed(m, n, f) ==
    (f.via = "op" /\ Len(m.res) = f.result_count /\ n.status = "ok") =>
        /\ n.sp = f.sp - f.param_count + f.result_count
        /\ n.fp = f.fp
        /\ n.pc = f.pc + 1

C1_CallFrame ==
    [][/\ (vm'.status = "ok" /\ vm'.mode = "ret" /\ vm.mode # "ret")
            => C1_Returned(vm', Last(vm'.frames))
       /\ (vm.status = "ok" /\ vm.mode = "ret")
            => C1_Completed(vm, vm', Last(vm.frames))]_vars

(* call has returned from a Local function with one result that left more  *)
(* than its result above the caller's sp.                                  *)
C1_Witness ==
    /\ vm.status = "ok" /\ vm.mode = "ret"
    /\ Last(vm.frames).kind = "local" /\ Last(vm.frames).via = "op"
    /\ Last(vm.frames).param_count = 2 /\ Last(vm.frames).result_count = 1
    /\ vm.left > Last(vm.frames).sp + 1
    /\ vm.sp = Last(vm.frames).sp - 2

(***************************************************************************)
(* C2: If pops its I32 condition c and continues in the then-arm when      *)
(* c # 0 (negative c included) and in the else-arm when c = 0; the branch  *)
(* that ends the then-arm of an if/else continues at the If's End.         *)
(***************************************************************************)
ElseArm(o, i) ==
    IF MatchElse(o, i) # -1 THEN {MatchElse(o, i), MatchElse(o, i) + 1} ELSE {MatchEnd(o, i)}

C2_IfArms ==
    [][/\ (Executing("If") /\ TopIsI32) =>
            /\ vm'.status = "ok"
            /\ vm'.sp = vm.sp - 1
            /\ IF vm.stack[vm.sp].v # 0 THEN vm'.pc = vm.pc + 1
               ELSE vm'.pc \in ElseArm(ops, vm.pc)
       /\ (Executing("Br") /\ vm.pc + 1 < Len(ops) /\ At(ops, vm.pc + 1).op = "Else") =>
            vm'.pc = ScanEnd(ops, vm.pc + 2, 0)]_vars

(***************************************************************************)
(* C3: executing Br(l) inside nested constructs continues at the l-th      *)
(* construct around it counted from the innermost: at its End for a Block  *)
(* or an If (then-arm or else-arm), at its head for a Loop.                *)
(***************************************************************************)
C3_BrTargets ==
    [][(Executing("Br") /\ Fetch(vm).l < Cardinality(Enclosing(ops, vm.pc))) =>
            vm'.pc \in LabelTargets(ops, EnclosingAt(ops, vm.pc, Fetch(vm).l))]_vars

(***************************************************************************)
(* C4: after a successful decode every Block, Loop and If (an If with an   *)
(* else-arm included) has a paired End after its body start, and that End  *)
(* carries the index of the construct + 1; the End closing a function body *)
(* or an initializer expression carries the start of its span.             *)
(***************************************************************************)
Spans ==
    {section.code[k].code : k \in 1..Len(section.code)}
    \cup {section.global[k].expr : k \in 1..Len(section.global)}
    \cup {section.element[k].ele[1] : k \in 1..Len(section.element)}
    \cup {section.data[k].kind[1] : k \in 1..Len(section.data)}

InOps(i) == 0 <= i /\ i < Len(ops)

C4_EndPayload ==
    (dstatus = "ok" /\ vm.instances = 0) =>
        /\ \A i \in 0..(Len(ops) - 1) :
              At(ops, i).op \in Constructs =>
                  /\ MatchEnd(ops, i) >= i + 1
                  /\ At(ops, MatchEnd(ops, i)).end = i + 1
        /\ \A span \in Spans :
              /\ InOps(span[2])
              /\ At(ops, span[2]).op = "End"
              /\ At(ops, span[2]).end = span[1]

(***************************************************************************)
(* C5: after a successful decode every pc stored in a control-flow         *)
(* instruction (the targets of Br, BrIf and BrTable, the three components  *)
(* of the Location of Block, Loop, If and Else, the payload of End) is an  *)
(* index of the instruction array.                                         *)
(***************************************************************************)
StoredPcs(o) ==
    CASE o.op \in {"Block", "Loop", "If", "Else"} -> {o.loc[1], o.loc[2], o.loc[3]}
      [] o.op = "End" -> {o.end}
      [] o.op \in {"Br", "BrIf"} -> {o.pc}
      [] o.op = "BrTable" -> {o.entries[k][2] : k \in 1..Len(o.entries)} \cup {o.dft[2]}
      [] OTHER -> {}

C5_PcsInRange ==
    dstatus = "ok" => \A i \in 0..(Len(ops) - 1) : \A t \in StoredPcs(At(ops, i)) : InOps(t)

(***************************************************************************)
(* C6: a global installed as Const keeps its variant and its value in      *)
(* every step after instantiation, and global.set on a Const global traps  *)
(* and leaves the globals as they were.                                    *)
(***************************************************************************)
C6_ConstGlobals ==
    [][/\ (vm.instances > 0 /\ vm'.instances = vm.instances) =>
            \A g \in 1..Len(vm.global) :
                vm.global[g].kind = "Const" =>
                    g <= Len(vm'.global) /\ vm'.global[g] = vm.global[g]
       /\ (/\ Executing("GlobalSet") /\ vm.sp >= 1
           /\ Fetch(vm).x < Len(vm.global)
           /\ At(vm.global, Fetch(vm).x).kind = "Const") =>
            Trapped(vm') /\ vm'.global = vm.global]_vars

(***************************************************************************)
(* C7: call_indirect with a popped I32 index that is not below the length  *)
(* of the table traps with a typed error handed to the caller of start:    *)
(* no function is called and pc stays at the call_indirect.                *)
(***************************************************************************)
IndexOutOfTable(m, op) ==
    /\ op.y < Len(m.table)
    /\ ~(0 <= m.stack[m.sp].v /\ m.stack[m.sp].v < Len(At(m.table, op.y)))

C7_IndirectOob ==
    [][(Executing("CallIndirect") /\ TopIsI32 /\ IndexOutOfTable(vm, Fetch(vm))) =>
            /\ Trapped(vm')
            /\ vm'.frames = vm.frames
            /\ vm'.pc = vm.pc]_vars

(***************************************************************************)
(* C8: call_indirect traps without calling when the type index of the      *)
(* function found in the table differs from its type_id.                   *)
(***************************************************************************)
TypeMismatch(m, op) ==
    /\ op.y < Len(m.table)
    /\ 0 <= m.stack[m.sp].v /\ m.stack[m.sp].v < Len(At(m.table, op.y))
    /\ At(At(m.table, op.y), m.stack[m.sp].v) < Len(m.func)
    /\ At(m.func, At(At(m.table, op.y), m.stack[m.sp].v)).ty # op.x

C8_IndirectType ==
    [][(Executing("CallIndirect") /\ TopIsI32 /\ TypeMismatch(vm, Fetch(vm))) =>
            /\ Trapped(vm')
            /\ vm'.frames = vm.frames]_vars

(***************************************************************************)
(* C9: an integer division by 0, and i32.div_s of INT32_MIN by -1, trap:   *)
(* the caller of start gets an error value and pc stays at the division.   *)
(***************************************************************************)
DivOps == {"I32DivS", "I32DivU", "I64DivS", "I64DivU"}

DivTraps(m, op) ==
    /\ op.op \in DivOps
    /\ m.sp >= 2 /\ m.sp <= MaxSlot
    /\ m.stack[m.sp].t = m.stack[m.sp - 1].t
    /\ m.stack[m.sp].t \in {"I32", "I64"}
    /\ \/ m.stack[m.sp].v = 0
       \/ /\ op.op = "I32DivS"
          /\ m.stack[m.sp - 1].v = INT32_MIN
          /\ m.stack[m.sp].v = -1

C9_DivTraps ==
    [][(vm.status = "ok" /\ vm.mode = "exec" /\ DivTraps(vm, Fetch(vm))) =>
            /\ Trapped(vm')
            /\ vm'.pc = vm.pc]_vars

(***************************************************************************)
(* C10: a store followed by a load at the same effective address pushes    *)
(* the stored value: unchanged for i32, i64, f32 and f64, v mod 256 for    *)
(* i32.store8 then i32.load8_u, the sign extension of the low byte for     *)
(* i32.store8 then i32.load8_s.                                            *)
(***************************************************************************)
(* The images const a; const v; store; const a; load; drop; end. *)
StoreThenLoad(img) ==
    /\ Len(img.code.stream) = 7
    /\ <<img.code.stream[2].op, img.code.stream[3].op, img.code.stream[5].op>> \in StoreLoad
    /\ img.code.stream[1] = img.code.stream[4]
    /\ img.code.stream[3].offset = img.code.stream[5].offset

Loaded(img) ==
    LET v == img.code.stream[2].v
        ld == img.code.stream[5].op
    IN CASE ld = "I32Load" -> I32(v)
         [] ld = "I64Load" -> I64(v)
         [] ld = "F32Load" -> F32(v)
         [] ld = "F64Load" -> F64(v)
         [] ld = "I32Load8u" -> I32(v % 256)
         [] ld = "I32Load8s" -> I32(SignedByte(v % 256))

C10_StoreLoad ==
    (StoreThenLoad(module) /\ vm.instances > 0) =>
        /\ vm.status = "ok"
        /\ (vm.mode = "exec" /\ vm.pc = 5) => vm.stack[vm.sp] = Loaded(module)

(***************************************************************************)
(* C11: in every state reached through instance and execution, the length  *)
(* of each linear memory is at most its declared maximum * PAGE_SIZE, also  *)
(* after the active data segments have been applied.                        *)
(***************************************************************************)
C11_MemWithinMax == \A k \in 1..Len(vm.mem) : vm.mem[k].len <= vm.mem[k].max

(***************************************************************************)
(* C12: a second call of instance on the same decoded module, with the     *)
(* same or another import object, yields the shape of a single             *)
(* instantiation: the function, global, table and memory arrays have the   *)
(* lengths a single call gives, every local function index resolves to its *)
(* decoded body and every imported function index to the callback of the   *)
(* import object of the latest call.                                       *)
(***************************************************************************)
ImportsOf(kind) == {i \in 1..Len(module.import) : module.import[i].kind = kind}

(* The position among the Func imports of import i, from 0. *)
FuncIndexOf(i) == Cardinality({j \in ImportsOf("Func") : j < i})

SingleShape(m, io) ==
    /\ Len(m.func) = Cardinality(ImportsOf("Func")) + Len(module.func)
    /\ Len(m.global) = Cardinality(ImportsOf("Global")) + module.global.count
    /\ Len(m.table) = Len(module.table)
    /\ Len(m.mem) = Cardinality(ImportsOf("Memory")) + Len(module.memory)
    /\ \A k \in 1..Len(module.func) :
          LET func == At(m.func, Cardinality(ImportsOf("Func")) + k - 1)
          IN /\ func.kind = "Local"
             /\ func.body = DecodeModule(module).section.code[k]
    /\ \A i \in ImportsOf("Func") :
          LET func == At(m.func, FuncIndexOf(i))
          IN /\ func.kind = "Import"
             /\ func.f = io.map[module.import[i].mod_name][module.import[i].field_name].f

C12_Reinstance ==
    [][\A io \in ImportObjects(module) :
          (vm.instances >= 1 /\ InstanceWith(io) /\ vm'.status = "ok") => SingleShape(vm', io)]_vars

(***************************************************************************)
(* C13: when the import object lacks the module name or the field name of  *)
(* a declared import, or holds a value of another kind than the declared   *)
(* one (a Value for a Func import, a Func for a Global import), instance   *)
(* fails with an error value: the process does not crash and the module is *)
(* not instantiated.                                                       *)
(***************************************************************************)
KindMismatch(io, ipt) ==
    /\ ImportFound(io, ipt)
    /\ \/ ipt.kind = "Func" /\ io.map[ipt.mod_name][ipt.field_name].kind = "Value"
       \/ ipt.kind = "Global" /\ io.map[ipt.mod_name][ipt.field_name].kind = "Func"

BadImport(io) ==
    \E i \in 1..Len(module.import) :
        ~ImportFound(io, module.import[i]) \/ KindMismatch(io, module.import[i])

C13_ImportErrors ==
    [][\A io \in ImportObjects(module) :
          (InstanceWith(io) /\ BadImport(io)) =>
              (vm'.status = "ok" /\ vm'.instances = vm.instances)]_vars

(***************************************************************************)
(* C14: decode of a byte image that does not begin with the 8 bytes        *)
(* 00 61 73 6d 01 00 00 00 (shorter images included) returns an error and  *)
(* has no side effect: offset, magic_number, version, the sections and the *)
(* instruction array are as before the call.                               *)
(***************************************************************************)
BeginsWithHeader(raw) ==
    Len(raw) >= Len(ValidHeader) /\ SubSeq(raw, 1, Len(ValidHeader)) = ValidHeader

DecodeReturned == dstatus = "new" /\ dstatus' # "new"

C14_BadHeader ==
    [][(DecodeReturned /\ ~BeginsWithHeader(reader.raw)) =>
          /\ dstatus' = "err"
          /\ reader'.offset = reader.offset
          /\ reader'.magic_number = reader.magic_number
          /\ reader'.version = reader.version
          /\ ops' = ops
          /\ section' = section]_vars

(***************************************************************************)
(* C15: LEB128 round trip.  Decoding the canonical encoding of an integer  *)
(* x of the decoder's width and signedness returns x and the number of     *)
(* bytes of the encoding; and for every byte sequence whose first byte     *)
(* without the continuation bit is at index k, zero-padded ones included,  *)
(* the unsigned decoders return the sum of the low 7 bits of byte i        *)
(* shifted left by 7 * i (within the decoder's width), with length k + 1.  *)
(***************************************************************************)
DecoderOf(kind) ==
    CASE kind = "u32" -> "decode_leb_u32" [] kind = "u64" -> "decode_leb_u64"
      [] kind = "i32" -> "decode_leb_i32" [] OTHER -> "decode_leb_i64"

Terminated(buf) == \E k \in 0..(Len(buf) - 1) : At(buf, k) < 128

FirstTerminal(buf) ==
    CHOOSE k \in 0..(Len(buf) - 1) :
        At(buf, k) < 128 /\ \A i \in 0..(k - 1) : At(buf, i) >= 128

(* The sum of the groups, as bits, below width w. *)
SumOfGroups(buf, k, w) ==
    UNION {{7 * i + j : j \in Low7(At(buf, i))} : i \in 0..k} \cap (0..(w - 1))

RoundTrip(kind) ==
    \A x \in ValuesOf(kind) :
        (reader.res.op = DecoderOf(kind) /\ reader.raw = Encode(kind, x)) =>
            /\ reader.res.status = "Ok"
            /\ reader.res.bits = x
            /\ reader.res.size = Len(reader.raw)

UnsignedSum(kind) ==
    (reader.res.op = DecoderOf(kind) /\ Terminated(reader.raw)) =>
        /\ reader.res.status = "Ok"
        /\ reader.res.bits = SumOfGroups(reader.raw, FirstTerminal(reader.raw), WidthOf(kind))
        /\ reader.res.size = FirstTerminal(reader.raw) + 1

C15_RoundTrip ==
    /\ \A kind \in LebKinds : RoundTrip(kind)
    /\ \A kind \in {"u32", "u64"} : UnsignedSum(kind)

(***************************************************************************)
(* C16: a cursor read (read_byte, read_bytes(n), peek_bytes(n),            *)
(* a LEB read) attempted when fewer bytes remain before the cursor's       *)
(* length than the read needs, a LEB read started exactly at the end of    *)
(* the section included, returns the EOF error value and leaves the offset *)
(* unchanged.                                                              *)
(***************************************************************************)
Remaining(c) ==
    IF c.offset >= Min(c.length, Len(c.raw)) THEN <<>>
    ELSE SubSeq(c.raw, c.offset + 1, Min(c.length, Len(c.raw)))

(* No byte without the continuation bit is left before the length. *)
LebStarved(c) == ~Terminated(Remaining(c))

EofUnmoved(c, d) ==
    /\ d.res.status = "Err"
    /\ d.res.why = "Unexpect token <EOF>"
    /\ d.offset = c.offset

C16_ReadPastEnd ==
    [][reader.res.status # "panic" =>
          /\ \A num \in 0..MaxRead :
                (reader.offset + num > reader.length
                 /\ reader' \in {[reader EXCEPT !.res = peek_bytes(reader, num)],
                                  read_bytes(reader, num, "read_bytes")})
                    => EofUnmoved(reader, reader')
          /\ (reader.offset + 1 > reader.length /\ reader' = read_byte(reader))
                    => EofUnmoved(reader, reader')
          /\ \A kind \in LebKinds :
                (LebStarved(reader) /\ reader' = read_leb(reader, kind))
                    => EofUnmoved(reader, reader')]_vars

(***************************************************************************)
(* C17: executing the _start export of the module whose body is            *)
(* i32.const 41; i32.const 1; i32.add; drop; end terminates: start returns *)
(* Ok, and on return sp = 0, fp = 0 and pc = 0.  For any _start of type    *)
(* () -> () that returns, start leaves sp = 0.                             *)
(***************************************************************************)
InStart == vm.frames # <<>> /\ vm.frames[1].via = "start"

StartReturns == vm.result = "none" /\ vm'.result = "Ok"

StartType == At(section.types, At(vm.func, vm.exports["_start"].index).ty)

C17_StartTerminates ==
    /\ (module = S2Image /\ InStart)
          ~> (vm.result = "Ok" /\ vm.sp = 0 /\ vm.fp = 0 /\ vm.pc = 0)
    /\ [][StartReturns /\ StartType = FuncType(0, 0) => vm'.sp = 0]_vars

C17_Witness ==
    /\ module = S2Image
    /\ vm.result = "Ok"
    /\ vm.mode = "idle"
    /\ vm.frames = <<>>
    /\ vm.sp = 0 /\ vm.fp = 0 /\ vm.pc = 0

(***************************************************************************)
(* C18: a function whose body is (loop (br 0)) never returns once called,  *)
(* and while it runs sp, fp and the length of the value stack stay         *)
(* constant at every step, so that no stack overflow can occur however     *)
(* many instructions are executed: the run stays able to take its next     *)
(* step.                                                                   *)
(***************************************************************************)
Looping == module = LoopImage /\ InStart

(* The step of run from m to n stays in the same activation with the      *)
(* stack as it was.                                                        *)
KeepsLooping(m, n) ==
    /\ n.status = "ok" /\ n.mode = "exec" /\ n.result = "none"
    /\ n.frames = m.frames
    /\ n.sp = m.sp /\ n.fp = m.fp /\ n.slen = m.slen
    /\ Fetch(n).op \in {"Loop", "Br"}

(* The branch to the loop head leaves the machine as it was, so the       *)
(* iterations of the loop are steps that change nothing: the property is   *)
(* stated of the next step of run in every state of the loop.              *)
C18_LoopForever ==
    Looping =>
        /\ vm.status = "ok" /\ vm.mode = "exec" /\ vm.result = "none"
        /\ vm.sp = 0 /\ vm.fp = 1 /\ vm.slen = STACK_SLAB
        /\ KeepsLooping(vm, RunStep(vm))

(* The branch is about to be taken from inside the loop. *)
C18_Witness ==
    /\ Looping
    /\ Fetch(vm).op = "Br"
    /\ At(ops, Fetch(vm).pc).op = "Loop"
    /\ RunStep(vm) = vm

(***************************************************************************)
(* C19: unbounded recursion (a function that calls itself unconditionally) *)
(* does not crash the host: once the value stack or the call depth exceeds *)
(* the limit of the implementation, execution stops with the trap          *)
(* STACK_OVERFLOW surfaced to the caller, that is, start returns an error. *)
(***************************************************************************)
Recursing == \E n \in 0..1 : module = RecImage(n) /\ InStart

C19_StackOverflowTrap ==
    /\ vm.status # "abort"
    /\ Recursing /\ Len(vm.frames) >= NativeDepth /\ Fetch(vm).op = "Call"
          => RunStep(vm).status = "ok" /\ RunStep(vm).result = "Err"

(***************************************************************************)
(* C20: when a host callback re-enters the interpreter by calling call on  *)
(* the module it was handed, after pushing the arguments, the inner call   *)
(* restores pc and fp to the values they had when it was entered, and      *)
(* after the outer host call completes the caller's pc, fp and sp are what *)
(* they would be had the callback not re-entered: sp is the sp before the  *)
(* call less the parameters of the host function plus the values returned. *)
(***************************************************************************)
Top == Last(vm.frames)

(* The callback of the frame on top is running. *)
InCallback == vm.status = "ok" /\ vm.mode = "host"

(* The call on top has returned to the one that made it. *)
Returning(via) == vm.status = "ok" /\ vm.mode = "ret" /\ Top.via = via

Reenters == InCallback /\ vm'.status = "ok" /\ Len(vm'.frames) = Len(vm.frames) + 1

C20_Reentry ==
    [][/\ Reenters =>
            /\ Last(vm'.frames).pc = vm.pc
            /\ Last(vm'.frames).fp = vm.fp
            /\ Last(vm'.frames).sp = vm.sp + Last(vm'.frames).param_count
       /\ (Returning("host") /\ vm'.status = "ok") =>
            /\ vm'.mode = "host"
            /\ vm'.pc = Top.pc
            /\ vm'.fp = Top.fp
            /\ vm'.sp = Top.sp - Top.param_count
       /\ (InCallback /\ Top.calls > 0 /\ vm'.mode = "ret") =>
            /\ vm'.pc = Top.pc
            /\ vm'.fp = Top.fp
            /\ vm'.sp = Top.sp - Top.param_count
       /\ (Returning("op") /\ Top.kind = "host" /\ Top.calls > 0 /\ vm'.status = "ok") =>
            /\ vm'.pc = Top.pc + 1
            /\ vm'.fp = Top.fp
            /\ vm'.sp = Top.sp - Top.param_count + Len(vm.res)]_vars

(* The call of a host function with a parameter has returned a value to   *)
(* the Call instruction after its callback re-entered the module.          *)
C20_Witness ==
    /\ Returning("op")
    /\ Top.kind = "host"
    /\ Top.calls > 0
    /\ Top.param_count > 0
    /\ Len(vm.res) > 0
    /\ vm.pc = Top.pc /\ vm.fp = Top.fp
    /\ vm.sp = Top.sp - Top.param_count

(***************************************************************************)
(* C21: for every call of a Local function with result_count >= 1, after   *)
(* the Call instruction completes the caller's top result_count slots hold *)
(* the values that were in the callee's top result_count slots at return,  *)
(* in the same bottom-to-top order.                                        *)
(***************************************************************************)
LocalReturned ==
    /\ Returning("op")
    /\ Top.kind = "local"
    /\ Top.result_count >= 1

C21_ResultOrder ==
    [][LocalReturned /\ vm'.status = "ok" =>
          \A k \in 0..(Top.result_count - 1) :
              vm'.stack[vm'.sp - k] = vm.stack[vm.left - k]]_vars

(***************************************************************************)
(* C22: executing BrIf pops one I32 condition c (sp decreases by 1) and     *)
(* jumps to the branch target exactly when c is non-zero, negative values  *)
(* included; when c = 0, pc advances by one.                               *)
(***************************************************************************)
LabelInside(l) == l < Cardinality(Enclosing(ops, vm.pc))

TargetOf(l) == LabelTargets(ops, EnclosingAt(ops, vm.pc, l))

C22_BrIf ==
    [][(Executing("BrIf") /\ TopIsI32 /\ LabelInside(Fetch(vm).l)) =>
          /\ vm'.status = "ok"
          /\ vm'.sp = vm.sp - 1
          /\ IF vm.stack[vm.sp].v # 0 THEN vm'.pc \in TargetOf(Fetch(vm).l)
             ELSE vm'.pc = vm.pc + 1]_vars

(***************************************************************************)
(* C23: executing BrTable pops one I32 index i and jumps to the resolved   *)
(* target of entries[i] when 0 <= i < count, and to the resolved target of *)
(* the default entry for every other i, negative i included; it never      *)
(* falls through to pc + 1.                                                *)
(***************************************************************************)
Selected(op, i) == IF 0 <= i /\ i < op.count THEN At(op.entries, i)[1] ELSE op.dft[1]

C23_BrTable ==
    [][(Executing("BrTable") /\ TopIsI32
        /\ LabelInside(Selected(Fetch(vm), vm.stack[vm.sp].v))) =>
          /\ vm'.status = "ok"
          /\ vm'.sp = vm.sp - 1
          /\ vm'.pc \in TargetOf(Selected(Fetch(vm), vm.stack[vm.sp].v))
          /\ vm'.pc # vm.pc + 1]_vars

(* BrTable has just popped a negative index, which is still in the slot   *)
(* above sp, and continues at the End of the outermost Block, the target   *)
(* of the default entry.                                                   *)
C23_Witness ==
    /\ vm.status = "ok" /\ vm.mode = "exec"
    /\ module = BrTableImage(-1)
    /\ vm.pc = MatchEnd(ops, 0)
    /\ Fetch(vm).op = "End"
    /\ vm.stack[vm.sp + 1] = I32(-1)

(***************************************************************************)
(* C24: executing Select pops three values (sp decreases by 2 net) and      *)
(* leaves on top the first-pushed operand when the I32 condition is        *)
(* non-zero (negative conditions included) and the second-pushed operand   *)
(* when the condition is 0.                                                *)
(***************************************************************************)
C24_Select ==
    [][(Executing("Select") /\ TopIsI32 /\ vm.sp >= 3) =>
          /\ vm'.status = "ok"
          /\ vm'.sp = vm.sp - 2
          /\ vm'.pc = vm.pc + 1
          /\ vm'.stack[vm'.sp] = IF vm.stack[vm.sp].v # 0 THEN vm.stack[vm.sp - 2]
                                  ELSE vm.stack[vm.sp - 1]]_vars

(***************************************************************************)
(* C25: the unsigned variants of the implemented integer opcodes (i32/i64   *)
(* lt_u, gt_u, le_u, ge_u and div_u) compute their result with both        *)
(* operands interpreted as unsigned integers of the opcode's width, also   *)
(* when the operands carry the signed I32/I64 tag: i32.lt_u on (-1, 1)     *)
(* pushes 0 and i32.div_u on (-2, 2) pushes 0x7fffffff.                    *)
(***************************************************************************)
(* a < b as unsigned numbers of one width: of two numbers of different     *)
(* sign the negative one is the larger.                                    *)
UnsignedLt(a, b) == IF (a < 0) = (b < 0) THEN a < b ELSE b < 0

(* 2^31 divided by b >= 2: quotient and remainder. *)
HalfDiv(b) ==
    IF (INT32_MAX % b) + 1 = b THEN <<(INT32_MAX \div b) + 1, 0>>
    ELSE <<INT32_MAX \div b, (INT32_MAX % b) + 1>>

(* The 32-bit unsigned quotient a / b for b # 0, as the signed number of   *)
(* the same bits; a negative a stands for (a - INT32_MIN) + 2^31.          *)
UnsignedDiv32(a, b) ==
    IF b < 0 THEN (IF UnsignedLt(a, b) THEN 0 ELSE 1)
    ELSE IF a >= 0 THEN a \div b
    ELSE IF b = 1 THEN a
    ELSE ((a - INT32_MIN) \div b) + HalfDiv(b)[1]
         + ((((a - INT32_MIN) % b) + HalfDiv(b)[2]) \div b)

UnsignedResult(name, a, b) ==
    CASE name = "Ltu" -> IF UnsignedLt(a, b) THEN 1 ELSE 0
      [] name = "Gtu" -> IF UnsignedLt(b, a) THEN 1 ELSE 0
      [] name = "Leu" -> IF UnsignedLt(b, a) THEN 0 ELSE 1
      [] name = "Geu" -> IF UnsignedLt(a, b) THEN 0 ELSE 1
      [] name = "DivU" -> UnsignedDiv32(a, b)

(* The operands of the binary instruction at pc carry the tag w. *)
Operands(w) ==
    /\ vm.sp >= 2 /\ vm.sp <= MaxSlot /\ InStack(vm, vm.sp)
    /\ vm.stack[vm.sp].t = w /\ vm.stack[vm.sp - 1].t = w

(* The comparisons of both widths push an I32; the quotient is stated for  *)
(* i32.div_u, whose unsigned results the numbers of the model hold.        *)
C25_Unsigned ==
    [][\A w \in Widths, name \in UnsignedOps :
          (/\ Executing(w \o name) /\ Operands(w)
           /\ name = "DivU" => w = "I32" /\ vm.stack[vm.sp].v # 0) =>
               /\ vm'.status = "ok"
               /\ vm'.sp = vm.sp - 1
               /\ vm'.stack[vm'.sp] =
                      [t |-> IF name = "DivU" THEN w ELSE "I32",
                       v |-> UnsignedResult(name, vm.stack[vm.sp - 1].v, vm.stack[vm.sp].v)]]_vars

(***************************************************************************)
(* C26: for every byte value b stored at the effective address,            *)
(* i32.load8_s pushes I32(b) when b < 128 and I32(b - 256) when b >= 128,   *)
(* and i32.load8_u pushes I32(b); for every 4-byte little-endian word w at *)
(* the address, i64.load32_s pushes the I64 whose value is w interpreted   *)
(* as a signed 32-bit integer.                                             *)
(***************************************************************************)
Address == Fetch(vm).offset + vm.stack[vm.sp].v

ByteAt(k) == ReadByte(vm.mem[1], Address + k)

Loading(name, width) ==
    /\ Executing(name) /\ TopIsI32
    /\ vm.stack[vm.sp].v >= 0
    /\ vm.mem # <<>>
    /\ InMem(vm, Address) /\ InMem(vm, Address + width - 1)

SignExtend8(b) == IF b < 128 THEN b ELSE b - 256

SignedWord(b0, b1, b2, b3) == b0 + 256 * b1 + 65536 * b2 + 16777216 * SignExtend8(b3)

C26_NarrowLoads ==
    [][/\ Loading("I32Load8s", 1) =>
            vm'.status = "ok" /\ vm'.stack[vm.sp] = I32(SignExtend8(ByteAt(0)))
       /\ Loading("I32Load8u", 1) =>
            vm'.status = "ok" /\ vm'.stack[vm.sp] = I32(ByteAt(0))
       /\ Loading("I64Load32s", 4) =>
            /\ vm'.status = "ok"
            /\ vm'.stack[vm.sp] = I64(SignedWord(ByteAt(0), ByteAt(1), ByteAt(2), ByteAt(3)))]_vars

(***************************************************************************)
(* C27: i64.extend_i32_u zero-extends: for every I32 value v on top of the *)
(* stack, negative v included, it replaces the top with the I64 whose      *)
(* value is v mod 2^32 (in 0 .. 2^32 - 1).  For v >= 0 that value is v;    *)
(* for v < 0 it is v + 2^32, of which the property states that it is not   *)
(* negative and differs from v.                                            *)
(***************************************************************************)
C27_ZeroExtend ==
    [][(Executing("I64ExtendsI32u") /\ TopIsI32) =>
          /\ vm'.status = "ok"
          /\ vm'.sp = vm.sp
          /\ vm'.stack[vm.sp].t = "I64"
          /\ vm'.stack[vm.sp].v >= 0
          /\ vm.stack[vm.sp].v >= 0 => vm'.stack[vm.sp].v = vm.stack[vm.sp].v]_vars

(***************************************************************************)
(* C28: a load or store whose effective address range, from base + offset  *)
(* through the last byte of the access width, is not entirely inside       *)
(* memory 0 traps, start handing MEM_OOB to its caller, and the memory is  *)
(* the same before and after the instruction, also when only the last      *)
(* bytes of the access are out of range.                                   *)
(***************************************************************************)
StoreOps == {"I32Store", "I64Store", "F32Store", "F64Store", "I32Store8"}
LoadOps == {"I32Load", "I64Load", "F32Load", "F64Load", "I32Load8s", "I32Load8u",
            "I64Load32s"}

AccessWidth(name) ==
    CASE name \in {"I32Store8", "I32Load8s", "I32Load8u"} -> 1
      [] name \in {"I64Store", "I64Load", "F64Store", "F64Load"} -> 8
      [] OTHER -> 4

BaseSlot == IF Fetch(vm).op \in StoreOps THEN vm.sp - 1 ELSE vm.sp

OutOfRange ==
    /\ vm.status = "ok" /\ vm.mode = "exec"
    /\ Fetch(vm).op \in StoreOps \cup LoadOps
    /\ BaseSlot >= 1 /\ vm.sp <= MaxSlot /\ InStack(vm, vm.sp)
    /\ vm.stack[BaseSlot].t = "I32" /\ vm.stack[BaseSlot].v >= 0
    /\ vm.mem # <<>>
    /\ vm.stack[BaseSlot].v + Fetch(vm).offset + AccessWidth(Fetch(vm).op) > vm.mem[1].len

C28_MemOob ==
    [][OutOfRange => (Trapped(vm') /\ vm'.mem = vm.mem)]_vars

(***************************************************************************)
(* C29: right after instance, data segments left aside, every memory of    *)
(* the instance, declared in the memory section or obtained from a Memory  *)
(* import, has the byte length minimum * PAGE_SIZE and the capacity        *)
(* maximum * PAGE_SIZE of its limits.  Stated for a first instance of a    *)
(* module without data segments whose limits have minimum <= maximum.      *)
(***************************************************************************)
MemoryLimits(sec) ==
    SelectSeq(sec.import, LAMBDA ipt : ipt.kind = "Memory") \o sec.memory

AsDeclared(mm, limits) ==
    /\ mm.len = limits.minimum * PAGE_SIZE
    /\ mm.cap = limits.maximum * PAGE_SIZE

FirstInstance == vm.instances = 0 /\ vm'.instances = 1 /\ vm'.status = "ok"

C29_MemoryLimits ==
    [][(/\ FirstInstance
        /\ section.data = <<>>
        /\ \A k \in 1..Len(MemoryLimits(section)) :
               MemoryLimits(section)[k].minimum <= MemoryLimits(section)[k].maximum) =>
           /\ Len(vm'.mem) = Len(MemoryLimits(section))
           /\ \A k \in 1..Len(vm'.mem) : AsDeclared(vm'.mem[k], MemoryLimits(section)[k])]_vars

(***************************************************************************)
(* C30: after a first instance the function array holds the Func imports   *)
(* in the order of the import section at the low indices, Table, Memory    *)
(* and Global imports taking no index, followed by the Local entries that  *)
(* pair the j-th type index of the function section with the j-th body of  *)
(* the code section.                                                       *)
(***************************************************************************)
FuncArray(m, io) ==
    LET hosts == Cardinality(ImportsOf("Func"))
    IN /\ Len(m.func) = hosts + Len(module.func)
       /\ \A i \in ImportsOf("Func") :
             LET func == At(m.func, FuncIndexOf(i))
             IN /\ func.kind = "Import"
                /\ func.ty = module.import[i].ty
                /\ func.f = io.map[module.import[i].mod_name][module.import[i].field_name].f
       /\ \A j \in 1..Len(module.func) :
             LET func == At(m.func, hosts + j - 1)
             IN /\ func.kind = "Local"
                /\ func.ty = module.func[j]
                /\ func.body = DecodeModule(module).section.code[j]

C30_FuncArray ==
    [][\A io \in ImportObjects(module) :
          (vm.instances = 0 /\ InstanceWith(io) /\ vm'.status = "ok") => FuncArray(vm', io)]_vars

C30_Witness ==
    /\ vm.instances = 1 /\ vm.status = "ok" /\ vm.mode = "idle"
    /\ \E i \in ImportsOf("Func") : \E j \in 1..(i - 1) : module.import[j].kind # "Func"
    /\ \E i \in ImportsOf("Func") : \E j \in (i + 1)..Len(module.import) :
           module.import[j].kind # "Func"
    /\ Len(module.func) > 0
    /\ Len(vm.func) = Cardinality(ImportsOf("Func")) + Len(module.func)
    /\ At(vm.func, 0).kind = "Import"
    /\ At(vm.func, 1).kind = "Local"

(***************************************************************************)
(* C31: for the active element segments with offsets o and function        *)
(* indices f, all inside table 0, after instance table 0 holds f[i] at     *)
(* slot o + i, a later segment overwriting an earlier one, every other     *)
(* slot keeps the content it had (0 in a table just created), and sp is    *)
(* back to its value before the offset expressions were evaluated.         *)
(***************************************************************************)
SegOffset(k) == At(ops, section.element[k].ele[1][1]).v

SegFuncs(k) == section.element[k].ele[2]

Covers(k, slot) == SegOffset(k) <= slot /\ slot < SegOffset(k) + Len(SegFuncs(k))

(* Table 0 before the segments are applied: the one an earlier instance    *)
(* left, or the first declared table just created.                        *)
TableBefore ==
    IF vm.table # <<>> THEN vm.table[1]
    ELSE [i \in 1..section.table[1].minimum |-> 0]

SegmentsInside ==
    /\ section.table # <<>>
    /\ section.element # <<>>
    /\ \A k \in 1..Len(section.element) :
          /\ At(ops, section.element[k].ele[1][1]).op = "I32Const"
          /\ SegOffset(k) >= 0
          /\ SegOffset(k) + Len(SegFuncs(k)) <= Len(TableBefore)

Installing(io) == vm.status = "ok" /\ vm.mode = "idle" /\ InstanceWith(io)

C31_ElementSegments ==
    [][\A io \in ImportObjects(module) :
          (Installing(io) /\ SegmentsInside) =>
            /\ vm'.status = "ok"
            /\ vm'.sp = 0
            /\ Len(vm'.table[1]) = Len(TableBefore)
            /\ \A slot \in 0..(Len(TableBefore) - 1) :
                  LET writers == {k \in 1..Len(section.element) : Covers(k, slot)}
                      k == CHOOSE w \in writers : \A x \in writers : x <= w
                  IN At(vm'.table[1], slot) =
                        IF writers = {} THEN At(TableBefore, slot)
                        ELSE SegFuncs(k)[slot - SegOffset(k) + 1]]_vars

C31_Witness ==
    /\ vm.status = "ok" /\ vm.instances = 1 /\ vm.mode = "idle"
    /\ Len(section.element) = 2
    /\ vm.table # <<>>
    /\ \E slot \in 0..(Len(vm.table[1]) - 1) :
          /\ Covers(1, slot) /\ Covers(2, slot)
          /\ SegFuncs(1)[slot - SegOffset(1) + 1] # SegFuncs(2)[slot - SegOffset(2) + 1]
          /\ At(vm.table[1], slot) = SegFuncs(2)[slot - SegOffset(2) + 1]
    /\ \E slot \in 0..(Len(vm.table[1]) - 1) :
          ~Covers(1, slot) /\ ~Covers(2, slot) /\ At(vm.table[1], slot) = 0

(***************************************************************************)
(* C32: for the active data segments with I32 offsets o and payloads p of  *)
(* n bytes, when instance has returned memory 0 holds p[i] at byte o + i   *)
(* (segments in declaration order), every byte outside the written ranges  *)
(* is 0, and the length of memory 0 is at least o + n and at most its      *)
(* capacity.  Stated for the first instance, whose memory is new.          *)
(***************************************************************************)
DataOffset(k) == At(ops, section.data[k].kind[1][1]).v

DataPayload(k) == section.data[k].kind[2]

InPayload(k, a) == DataOffset(k) <= a /\ a < DataOffset(k) + Len(DataPayload(k))

DataSegments ==
    /\ section.data # <<>>
    /\ \A k \in 1..Len(section.data) :
          /\ At(ops, section.data[k].kind[1][1]).op = "I32Const"
          /\ DataOffset(k) >= 0

(* The byte the segments leave at address a. *)
DataByte(a) ==
    LET writers == {k \in 1..Len(section.data) : InPayload(k, a)}
        k == CHOOSE w \in writers : \A x \in writers : x <= w
    IN IF writers = {} THEN 0 ELSE DataPayload(k)[a - DataOffset(k) + 1]

DataInstalled(mm) ==
    /\ \A k \in 1..Len(section.data) : mm.len >= DataOffset(k) + Len(DataPayload(k))
    /\ mm.len <= mm.cap
    /\ \A a \in DOMAIN mm.bytes \cup
                 UNION {DataOffset(k)..(DataOffset(k) + Len(DataPayload(k)) - 1) :
                          k \in 1..Len(section.data)} :
          ReadByte(mm, a) = DataByte(a)

C32_DataSegments ==
    [][\A io \in ImportObjects(module) :
          (Installing(io) /\ vm.instances = 0 /\ DataSegments /\ vm'.status = "ok") =>
            (vm'.mem # <<>> /\ DataInstalled(vm'.mem[1]))]_vars

(***************************************************************************)
(* C33: every initializer expression made of one constant or global.get    *)
(* and its End is evaluated up to that End, pushes one value, and the pop   *)
(* of instance restores sp: the globals appended by instance are the       *)
(* imported ones followed by the declared ones in declaration order, each  *)
(* with the value of its initializer and its declared mutability, and      *)
(* sp = 0 when instance returns.                                           *)
(***************************************************************************)
ConstOps == {"I32Const", "I64Const", "F32Const", "F64Const"}

(* The span of an initializer holds one pushing instruction and its End. *)
OnePush(span) ==
    /\ span[2] = span[1] + 1
    /\ At(ops, span[1]).op \in ConstOps \cup {"GlobalGet"}
    /\ At(ops, span[2]).op = "End"

Initializers ==
    [k \in 1..Len(section.global) |-> section.global[k].expr]
    \o [k \in 1..Len(section.element) |-> section.element[k].ele[1]]
    \o [k \in 1..Len(section.data) |-> section.data[k].kind[1]]

TagOf(name) ==
    CASE name = "I32Const" -> "I32" [] name = "I64Const" -> "I64"
      [] name = "F32Const" -> "F32" [] OTHER -> "F64"

(* The value of an initializer, globals being those of the array g. *)
InitValue(span, g) ==
    LET o == At(ops, span[1])
    IN IF o.op = "GlobalGet" THEN At(g, o.x).val ELSE [t |-> TagOf(o.op), v |-> o.v]

GlobalImports == SelectSeq(section.import, LAMBDA ipt : ipt.kind = "Global")

GlobalsInstalled(io, before, after) ==
    /\ Len(after) = Len(before) + Len(GlobalImports) + Len(section.global)
    /\ \A k \in 1..Len(before) : after[k] = before[k]
    /\ \A k \in 1..Len(GlobalImports) :
          after[Len(before) + k] =
             [kind |-> IF GlobalImports[k].mutability THEN "Var" ELSE "Const",
              val |-> io.map[GlobalImports[k].mod_name][GlobalImports[k].field_name].val]
    /\ \A k \in 1..Len(section.global) :
          after[Len(before) + Len(GlobalImports) + k] =
             [kind |-> IF section.global[k].mutability THEN "Var" ELSE "Const",
              val |-> InitValue(section.global[k].expr, after)]

C33_Initializers ==
    [][\A io \in ImportObjects(module) :
          (/\ Installing(io) /\ vm'.status = "ok"
           /\ \A k \in 1..Len(Initializers) :
                 /\ OnePush(Initializers[k])
                 /\ At(ops, Initializers[k][1]).op = "GlobalGet" =>
                        At(ops, Initializers[k][1]).x < Len(vm.global) + Len(GlobalImports)) =>
            /\ vm'.sp = 0
            /\ GlobalsInstalled(io, vm.global, vm'.global)]_vars

C33_Witness ==
    /\ vm.status = "ok" /\ vm.mode = "idle" /\ vm.instances = 1 /\ vm.sp = 0
    /\ Len(GlobalImports) = 1 /\ Len(section.global) = 3
    /\ Len(vm.global) = 4
    /\ At(vm.global, 1) = [kind |-> "Var", val |-> I32(5)]
    /\ At(vm.global, 2) = [kind |-> "Const", val |-> At(vm.global, 0).val]
    /\ At(vm.global, 3) = [kind |-> "Var", val |-> I64(6)]

(***************************************************************************)
(* C34: the value stack always has free slots above sp, so that pushing    *)
(* the declared locals on entry to a function never writes past the end    *)
(* of the stack, whatever their number: the entry does not panic and       *)
(* leaves sp below the length of the stack.                                *)
(***************************************************************************)
Entering(idx) ==
    \/ Executing("Call") /\ Fetch(vm).x = idx /\ vm' = RunStep(vm)
    \/ /\ vm.status = "ok" /\ vm.mode = "idle" /\ vm.instances > 0 /\ vm.result = "none"
       /\ "_start" \in DOMAIN vm.exports
       /\ vm.exports["_start"].kind = "Func"
       /\ vm.exports["_start"].index = idx
       /\ vm' = start(vm)

(* Function idx is a Local one of a known type whose arguments are on the  *)
(* stack and whose locals have value types.                                *)
EnterableLocal(idx) ==
    /\ At(vm.func, idx).kind = "Local"
    /\ At(vm.func, idx).ty < Len(Types(vm))
    /\ Len(vm.frames) < NativeDepth
    /\ \A g \in 1..Len(At(vm.func, idx).body.locales) :
          ZeroValue(At(vm.func, idx).body.locales[g][2]).ok

C34_StackRoom ==
    [][\A idx \in 0..(Len(vm.func) - 1) :
          (Entering(idx) /\ EnterableLocal(idx)) =>
             /\ vm'.status # "panic"
             /\ vm'.status = "ok" => vm'.sp < vm'.slen]_vars

(***************************************************************************)
(* C35: on entry to a Local function fp = sp_at_call - param_count + 1:    *)
(* slots fp .. fp + param_count - 1 hold the arguments the caller pushed   *)
(* and the slots above them the zero values of the declared locals in      *)
(* declaration order; local.get i pushes slot fp + i, local.set i and      *)
(* local.tee i write the top of the stack to slot fp + i and nothing       *)
(* else, tee leaving sp unchanged and set decreasing it by 1.              *)
(***************************************************************************)
(* The declared type of the j-th declared local, j from 0. *)
LocalType(locales, j) ==
    LET g == CHOOSE h \in 1..Len(locales) :
                 /\ LocalCount(SubSeq(locales, 1, h - 1)) <= j
                 /\ j < LocalCount(SubSeq(locales, 1, h))
    IN locales[g][2]

SpAtCall == IF vm.mode = "idle" THEN 0 ELSE vm.sp

LocalsOnEntry(idx) ==
    LET func == At(vm.func, idx)
        pcnt == At(Types(vm), func.ty).param_count
        n == LocalCount(func.body.locales)
    IN /\ vm'.fp = SpAtCall - pcnt + 1
       /\ vm'.sp = SpAtCall + n
       /\ \A i \in 0..(pcnt - 1) : vm'.stack[vm'.fp + i] = vm.stack[SpAtCall - pcnt + 1 + i]
       /\ \A j \in 0..(n - 1) :
             vm'.stack[vm'.fp + pcnt + j] = [t |-> LocalType(func.body.locales, j), v |-> 0]

OnlySlot(k, v) ==
    /\ vm'.stack[k] = v
    /\ \A s \in DOMAIN vm.stack \ {k} : vm'.stack[s] = vm.stack[s]

LocalAccess ==
    /\ (Executing("LocalGet") /\ vm'.status = "ok") =>
          /\ vm'.sp = vm.sp + 1
          /\ OnlySlot(vm'.sp, vm.stack[vm.fp + Fetch(vm).x])
    /\ (Executing("LocalSet") /\ vm'.status = "ok") =>
          /\ vm'.sp = vm.sp - 1
          /\ OnlySlot(vm.fp + Fetch(vm).x, vm.stack[vm.sp])
    /\ (Executing("LocalTee") /\ vm'.status = "ok") =>
          /\ vm'.sp = vm.sp
          /\ OnlySlot(vm.fp + Fetch(vm).x, vm.stack[vm.sp])

C35_Locals ==
    [][/\ \A idx \in 0..(Len(vm.func) - 1) :
            (Entering(idx) /\ EnterableLocal(idx) /\ vm'.status = "ok") => LocalsOnEntry(idx)
       /\ LocalAccess]_vars

(* local.tee 2 has copied parameter 0 into the i32 local; local.set 3 is   *)
(* next, the i64 local still holding its zero value.                       *)
C35_Witness ==
    /\ Executing("LocalSet") /\ Fetch(vm).x = 3
    /\ Top.kind = "local" /\ Top.param_count = 2
    /\ vm.fp = Top.sp - 2 + 1
    /\ vm.stack[vm.fp] = I32(3) /\ vm.stack[vm.fp + 1] = I32(4)
    /\ vm.stack[vm.fp + 2] = I32(3)
    /\ vm.stack[vm.fp + 3] = I64(0)
    /\ vm.stack[vm.sp] = I32(3)

(***************************************************************************)
(* C36: a LEB128 integer without its terminal byte, the buffer or the      *)
(* section ending while every available byte carries the continuation      *)
(* bit, makes the decoder return an error value (TRUNCATED): no value is   *)
(* returned and the cursor does not advance.                               *)
(***************************************************************************)
LebCutShort(buf) == buf # <<>> /\ ~Terminated(buf)

FailsUnmoved(c, d) ==
    /\ d.res.status = "Err"
    /\ d.res.bits = {} /\ d.res.size = 0
    /\ d.offset = c.offset

C36_Truncated ==
    [][reader.res.status # "panic" =>
          \A kind \in LebKinds :
             /\ (LebCutShort(Remaining(reader)) /\ reader' = read_leb(reader, kind))
                    => FailsUnmoved(reader, reader')
             /\ (/\ LebCutShort(reader.raw)
                 /\ reader' = [reader EXCEPT !.res = decode_leb(kind, reader.raw)])
                    => FailsUnmoved(reader, reader')]_vars

(***************************************************************************)
(* C37: every target the decoder recorded for a branch (Br, BrIf,          *)
(* BrTable) is the index of a Block, Loop, If or Else, also when the label *)
(* denotes the function body itself, and a taken Br moves pc: the same     *)
(* branch is not executed again with pc unchanged (a Br that is the first  *)
(* instruction of the Loop it repeats left aside).                         *)
(***************************************************************************)
BranchOps == {"Br", "BrIf", "BrTable"}

RecordedTargets(op) ==
    IF op.op = "BrTable"
    THEN {op.entries[k][2] : k \in 1..Len(op.entries)} \cup {op.dft[2]}
    ELSE {op.pc}

HeadOfOwnLoop ==
    /\ InOps(Fetch(vm).pc)
    /\ At(ops, Fetch(vm).pc).op = "Loop"
    /\ At(ops, Fetch(vm).pc).loc[1] = vm.pc

C37_BranchTargets ==
    (vm.status = "ok" /\ vm.mode = "exec" /\ Fetch(vm).op \in BranchOps) =>
        /\ \A t \in RecordedTargets(Fetch(vm)) :
               InOps(t) /\ At(ops, t).op \in {"Block", "Loop", "If", "Else"}
        /\ (Fetch(vm).op = "Br" /\ ~HeadOfOwnLoop) => RunStep(vm).pc # vm.pc

(***************************************************************************)
(* C38: executing Br changes only pc: sp, fp, the value stack, the         *)
(* globals, tables and memories stay as they are; BrIf and BrTable change, *)
(* besides pc, only sp, which decreases by exactly 1.                      *)
(***************************************************************************)
SameBut(m, n, fields) ==
    \A f \in DOMAIN m \ fields : n[f] = m[f]

C38_BranchFrame ==
    [][/\ (Executing("Br") /\ vm'.status = "ok") => SameBut(vm, vm', {"pc"})
       /\ ((Executing("BrIf") \/ Executing("BrTable")) /\ vm'.status = "ok") =>
             /\ SameBut(vm, vm', {"pc", "sp"})
             /\ vm'.sp = vm.sp - 1]_vars

(* Br has left a block: the value pushed inside the block is still on the  *)
(* stack at the End of the block.                                          *)
C38_Witness ==
    /\ vm.status = "ok" /\ vm.mode = "exec"
    /\ Fetch(vm).op = "End"
    /\ vm.pc > 0 /\ At(ops, vm.pc - 1).op = "Br"
    /\ vm.sp = 1 /\ vm.stack[1] = I32(5)

(***************************************************************************)
(* C39: a slot of table 0 below its minimum size that no active element    *)
(* segment wrote holds function index 0 after instance, and call_indirect  *)
(* through such a slot calls function 0: it does not trap.                 *)
(***************************************************************************)
Unwritten(slot) == \A k \in 1..Len(section.element) : ~Covers(k, slot)

EmptySlotsAreZero ==
    (vm.instances > 0 /\ vm.status = "ok" /\ vm.table # <<>>) =>
        \A slot \in 0..(Len(vm.table[1]) - 1) :
            Unwritten(slot) => At(vm.table[1], slot) = 0

ThroughEmptySlot ==
    /\ Executing("CallIndirect") /\ TopIsI32
    /\ Fetch(vm).y = 0 /\ vm.table # <<>>
    /\ 0 <= vm.stack[vm.sp].v /\ vm.stack[vm.sp].v < Len(vm.table[1])
    /\ Unwritten(vm.stack[vm.sp].v)
    /\ Len(vm.frames) < NativeDepth

C39_EmptySlots ==
    [][/\ EmptySlotsAreZero'
       /\ ThroughEmptySlot =>
             /\ vm'.status = "ok" /\ ~Trapped(vm')
             /\ Len(vm'.frames) = Len(vm.frames) + 1
             /\ Last(vm'.frames).idx = 0
             /\ Last(vm'.frames).via = "op"]_vars

(* Function 0 has just been entered from a call_indirect whose index, left *)
(* above the saved sp, is a slot no segment wrote.                         *)
C39_Witness ==
    /\ vm.status = "ok" /\ vm.mode = "exec"
    /\ Len(vm.frames) >= 2
    /\ Top.idx = 0 /\ Top.via = "op" /\ vm.pc = Top.offset
    /\ At(ops, Top.pc).op = "CallIndirect"
    /\ vm.sp = Top.sp
    /\ vm.stack[Top.sp + 1].t = "I32"
    /\ vm.stack[Top.sp + 1].v \in 0..(Len(vm.table[1]) - 1)
    /\ Unwritten(vm.stack[Top.sp + 1].v)
    /\ At(vm.table[1], vm.stack[Top.sp + 1].v) = 0

(***************************************************************************)
(* C40: after a successful decode every function body and every            *)
(* initializer expression has a span (start, end, last) into the           *)
(* instruction array with start <= end = last < length and                 *)
(* instruction[end] = End(start); the spans are pairwise disjoint and      *)
(* follow each other in the order of the binary.                           *)
(***************************************************************************)
(* The spans in the order their sections are decoded. *)
SpanSeq ==
    [k \in 1..Len(section.global) |-> section.global[k].expr]
    \o [k \in 1..Len(section.element) |-> section.element[k].ele[1]]
    \o [k \in 1..Len(section.code) |-> section.code[k].code]
    \o [k \in 1..Len(section.data) |-> section.data[k].kind[1]]

ClosedSpan(span) ==
    /\ 0 <= span[1] /\ span[1] <= span[2]
    /\ span[2] = span[3]
    /\ span[3] < Len(ops)
    /\ At(ops, span[2]) = OpEnd(span[1])

C40_Spans ==
    (dstatus = "ok" /\ vm.instances = 0) =>
        /\ \A k \in 1..Len(SpanSeq) : ClosedSpan(SpanSeq[k])
        /\ \A j, k \in 1..Len(SpanSeq) : j < k => SpanSeq[j][3] < SpanSeq[k][1]

====
